---- MODULE Spec2Model ----
(***************************************************************************)
(* OutletBackend: the content-acquisition pipeline of the four handlers    *)
(*   learn   src/server.js                 app.get('/learn'), shared       *)
(*                                         headless browser                *)
(*   vercel  src/api/index.js              serverless handler, one browser *)
(*                                         per invocation                  *)
(*   proxy   src/unnamed/part_000          app.get('/proxy'), axios +      *)
(*                                         cheerio, throttled              *)
(*   legacy  src/outlet_backend/server.js  app.get('/proxy'), first        *)
(*                                         version                         *)
(* Strings are TLA+ strings; TLC's Len, SubSeq and \o work on them, so a   *)
(* character is a string of length one.  An action is one run of           *)
(* JavaScript between two awaits (the event loop runs such a run without   *)
(* interleaving).                                                          *)
(***************************************************************************)
EXTENDS Integers, Sequences, FiniteSets, TLC

\* ------------------------------------------------------------------ bounds
NumReq == 2

\* Math.random() is drawn in steps of 1 / RandomScale
RandomScale == 1000

Reqs == 1 .. NumReq

\* ------------------------------------------------------- string primitives
Char(s, i) == SubSeq(s, i, i)

StartsWith(s, p) == Len(s) >= Len(p) /\ SubSeq(s, 1, Len(p)) = p

\* String.prototype.includes
Includes(s, sub) ==
    \E i \in 1 .. (Len(s) - Len(sub) + 1) : SubSeq(s, i, i + Len(sub) - 1) = sub

\* first index of character c in s at or after position i, 0 when absent
RECURSIVE IndexFrom(_, _, _)
IndexFrom(s, c, i) ==
    IF i > Len(s) THEN 0
    ELSE IF Char(s, i) = c THEN i
    ELSE IndexFrom(s, c, i + 1)

\* last index of character c in s, 0 when absent
RECURSIVE LastIndexTo(_, _, _)
LastIndexTo(s, c, i) ==
    IF i < 1 THEN 0
    ELSE IF Char(s, i) = c THEN i
    ELSE LastIndexTo(s, c, i - 1)

Digits == <<"0", "1", "2", "3", "4", "5", "6", "7", "8", "9">>

DigitSet == {Digits[i] : i \in 1 .. 10}

DigitVal(c) == (CHOOSE i \in 1 .. 10 : Digits[i] = c) - 1

UpperChars == <<"A", "B", "C", "D", "E", "F", "G", "H", "I", "J", "K", "L", "M",
                "N", "O", "P", "Q", "R", "S", "T", "U", "V", "W", "X", "Y", "Z">>

LowerChars == <<"a", "b", "c", "d", "e", "f", "g", "h", "i", "j", "k", "l", "m",
                "n", "o", "p", "q", "r", "s", "t", "u", "v", "w", "x", "y", "z">>

UpperSet == {UpperChars[i] : i \in 1 .. 26}

LowerSet == {LowerChars[i] : i \in 1 .. 26}

HexSet == DigitSet \cup {"a", "b", "c", "d", "e", "f"}

LowerChar(c) ==
    IF c \in UpperSet THEN LowerChars[CHOOSE i \in 1 .. 26 : UpperChars[i] = c]
    ELSE c

RECURSIVE ToLower(_)
ToLower(s) ==
    IF Len(s) = 0 THEN s
    ELSE LowerChar(Char(s, 1)) \o ToLower(SubSeq(s, 2, Len(s)))

AllIn(s, set) == \A i \in 1 .. Len(s) : Char(s, i) \in set

\* decimal digits -> number
RECURSIVE ParseDec(_, _)
ParseDec(s, acc) ==
    IF Len(s) = 0 THEN acc
    ELSE ParseDec(SubSeq(s, 2, Len(s)), acc * 10 + DigitVal(Char(s, 1)))

\* number -> decimal digits
RECURSIVE ToDec(_)
ToDec(n) ==
    IF n < 10 THEN Digits[n + 1]
    ELSE ToDec(n \div 10) \o Digits[(n % 10) + 1]

\* ------------------------------------------------------------- SSRF guard
\* /^localhost$/i
ReLocalhost(h) == ToLower(h) = "localhost"

\* /^127\./
Re127(h) == StartsWith(h, "127.")

\* /^192\.168\./
Re192(h) == StartsWith(h, "192.168.")

\* /^10\./
Re10(h) == StartsWith(h, "10.")

\* /^172\.(1[6-9]|2[0-9]|3[0-1])\./
Re172(h) ==
    /\ StartsWith(h, "172.")
    /\ Len(h) >= 7
    /\ \/ Char(h, 5) = "1" /\ Char(h, 6) \in {"6", "7", "8", "9"}
       \/ Char(h, 5) = "2" /\ Char(h, 6) \in DigitSet
       \/ Char(h, 5) = "3" /\ Char(h, 6) \in {"0", "1"}
    /\ Char(h, 7) = "."

\* /^::1$/
ReLoop6(h) == h = "::1"

\* /^fc00:/
ReFc00(h) == StartsWith(h, "fc00:")

\* /^fe80:/
ReFe80(h) == StartsWith(h, "fe80:")

\* privatePatterns.some(pattern => pattern.test(hostname))
isPrivateIP(hostname) ==
    \/ ReLocalhost(hostname)
    \/ Re127(hostname)
    \/ Re192(hostname)
    \/ Re10(hostname)
    \/ Re172(hostname)
    \/ ReLoop6(hostname)
    \/ ReFc00(hostname)
    \/ ReFe80(hostname)

\* ------------------------------------------------------------- URL parser
\* new URL(input) of Node (WHATWG URL Standard), without a base URL.  The
\* result carries what the handlers read: protocol and hostname.  Modelled:
\* scheme scanning and lower-casing, special and non-special schemes,
\* authority extraction, userinfo and port stripping, domain lower-casing,
\* forbidden host characters, the IPv4 number parser and serializer
\* (decimal parts), bracketed IPv6 literals (lower-cased, brackets kept by
\* the hostname getter; inputs are written in compressed form), file: hosts.
AlphaSet == UpperSet \cup LowerSet

SchemeCharSet == AlphaSet \cup DigitSet \cup {"+", "-", "."}

SpecialSchemes == {"http", "https", "ftp", "ws", "wss", "file"}

ForbiddenHostChars == {" ", "#", "/", ":", "<", ">", "?", "@", "[", "\\", "]", "^", "|", "%"}

ParseFailure == [ok |-> FALSE, protocol |-> "", hostname |-> ""]

\* the parts of s separated by "."
RECURSIVE SplitDotsAt(_, _)
SplitDotsAt(s, i) ==
    IF i = 0 THEN <<s>>
    ELSE <<SubSeq(s, 1, i - 1)>>
             \o SplitDotsAt(SubSeq(s, i + 1, Len(s)), IndexFrom(SubSeq(s, i + 1, Len(s)), ".", 1))

SplitDots(s) == SplitDotsAt(s, IndexFrom(s, ".", 1))

\* index of the first character of s in set at or after i, Len(s)+1 when none
RECURSIVE FirstOf(_, _, _)
FirstOf(s, set, i) ==
    IF i > Len(s) THEN Len(s) + 1
    ELSE IF Char(s, i) \in set THEN i
    ELSE FirstOf(s, set, i + 1)

\* number of leading characters of s that are in set
RECURSIVE SkipWhile(_, _, _)
SkipWhile(s, set, i) ==
    IF i <= Len(s) /\ Char(s, i) \in set THEN SkipWhile(s, set, i + 1)
    ELSE i - 1

\* 256^n for the n this parser needs (a one-part address is below 2^31 here:
\* the model's integers are 32-bit, so larger one-part inputs are not drawn)
Pow256(n) == IF n = 0 THEN 1 ELSE IF n = 1 THEN 256 ELSE IF n = 2 THEN 65536
             ELSE 16777216

\* the labels of a host, without the empty one a trailing dot leaves
DropTrailingEmpty(parts) ==
    IF Len(parts) > 1 /\ parts[Len(parts)] = "" THEN SubSeq(parts, 1, Len(parts) - 1)
    ELSE parts

HostParts(h) == DropTrailingEmpty(SplitDots(h))

\* host "ends in a number": its last label is all digits
EndsInNumber(parts) ==
    Len(parts[Len(parts)]) > 0 /\ AllIn(parts[Len(parts)], DigitSet)

\* the four octets of the address whose parts are nums: the last part fills
\* the remaining bytes; <<>> on failure
Ipv4Octets(nums, n) ==
    IF \E i \in 1 .. (n - 1) : nums[i] > 255 THEN <<>>
    ELSE IF n > 1 /\ nums[n] >= Pow256(5 - n) THEN <<>>
    ELSE [i \in 1 .. 4 |-> IF i < n THEN nums[i] ELSE (nums[n] \div Pow256(4 - i)) % 256]

\* IPv4 parser: <<>> on failure, else the four octets
ParseIpv4(parts) ==
    IF Len(parts) > 4 THEN <<>>
    ELSE IF \E i \in 1 .. Len(parts) : Len(parts[i]) = 0 \/ ~AllIn(parts[i], DigitSet) THEN <<>>
    ELSE Ipv4Octets([i \in 1 .. Len(parts) |-> ParseDec(parts[i], 0)], Len(parts))

SerializeIpv4(a) ==
    ToDec(a[1]) \o "." \o ToDec(a[2]) \o "." \o ToDec(a[3]) \o "." \o ToDec(a[4])

\* "" stands for a host-parser failure
SerializeOrFail(a) == IF a = <<>> THEN "" ELSE SerializeIpv4(a)

\* an IPv6 literal [inner]: the hostname keeps the brackets
ParseV6(h, inner) ==
    IF Char(h, Len(h)) # "]" \/ Len(inner) < 2
       \/ ~AllIn(inner, HexSet \cup {":"}) \/ IndexFrom(inner, ":", 1) = 0
    THEN ""
    ELSE "[" \o inner \o "]"

\* a lower-cased domain, or an IPv4 address when it ends in a number
ParseDomain(d) ==
    IF \E i \in 1 .. Len(d) : Char(d, i) \in ForbiddenHostChars THEN ""
    ELSE IF EndsInNumber(HostParts(d)) THEN SerializeOrFail(ParseIpv4(HostParts(d)))
    ELSE d

\* host parser for special schemes
ParseHost(h) ==
    IF Len(h) = 0 THEN ""
    ELSE IF Char(h, 1) = "[" THEN ParseV6(h, ToLower(SubSeq(h, 2, Len(h) - 1)))
    ELSE ParseDomain(ToLower(h))

\* authority -> host[:port] without userinfo
StripUserinfo(a) == SubSeq(a, LastIndexTo(a, "@", Len(a)) + 1, Len(a))

\* the authority of what follows the slashes, without userinfo
Authority(after) ==
    StripUserinfo(SubSeq(after, 1, FirstOf(after, {"/", "\\", "?", "#"}, 1) - 1))

\* index of the ":" that starts the port, 0 when there is none
PortColon(hp) ==
    IF Len(hp) > 0 /\ Char(hp, 1) = "[" THEN IndexFrom(hp, ":", IndexFrom(hp, "]", 1) + 1)
    ELSE LastIndexTo(hp, ":", Len(hp))

\* a port that is not all digits makes the URL invalid
PortOkAt(hp, colon) == colon = 0 \/ AllIn(SubSeq(hp, colon + 1, Len(hp)), DigitSet)

PortOk(hp) == PortOkAt(hp, PortColon(hp))

StripPortAt(hp, colon) == IF colon = 0 THEN hp ELSE SubSeq(hp, 1, colon - 1)

StripPort(hp) == StripPortAt(hp, PortColon(hp))

Parsed(scheme, host) == [ok |-> TRUE, protocol |-> scheme \o ":", hostname |-> host]

HostResult(scheme, host) == IF host = "" THEN ParseFailure ELSE Parsed(scheme, host)

\* http, https, ftp, ws, wss: the host must be there and valid
SpecialResult(scheme, hp) ==
    IF ~PortOk(hp) THEN ParseFailure ELSE HostResult(scheme, ParseHost(StripPort(hp)))

\* file: an empty host and localhost both give ""
FileHost(p) ==
    IF p = "" THEN ParseFailure ELSE Parsed("file", IF p = "localhost" THEN "" ELSE p)

FileResult(raw) == IF raw = "" THEN Parsed("file", "") ELSE FileHost(ParseHost(raw))

\* any other scheme followed by //: an opaque host, kept as written
OpaqueResult(scheme, raw) ==
    IF \E i \in 1 .. Len(raw) : Char(raw, i) \in {" ", "<", ">", "^", "|"} THEN ParseFailure
    ELSE Parsed(scheme, raw)

ParseAfterScheme(scheme, rest) ==
    IF scheme \in SpecialSchemes \ {"file"}
    THEN SpecialResult(scheme,
             Authority(SubSeq(rest, SkipWhile(rest, {"/", "\\"}, 1) + 1, Len(rest))))
    ELSE IF ~StartsWith(rest, "//") THEN Parsed(scheme, "")
    ELSE IF scheme = "file" THEN FileResult(StripPort(Authority(SubSeq(rest, 3, Len(rest)))))
    ELSE OpaqueResult(scheme, StripPort(Authority(SubSeq(rest, 3, Len(rest)))))

ParseScheme(input, colon) ==
    IF colon < 2 \/ Char(input, 1) \notin AlphaSet
       \/ ~AllIn(SubSeq(input, 1, colon - 1), SchemeCharSet)
    THEN ParseFailure
    ELSE ParseAfterScheme(ToLower(SubSeq(input, 1, colon - 1)),
                          SubSeq(input, colon + 1, Len(input)))

\* req.query.url ("" stands for an absent or empty parameter: !targetUrl)
Urls == {"", "not a url", "http://localhost:8080/admin", "https://example.com",
         "file:///etc/passwd", "http://[::1]/", "https://example.com/docs/page?x=1"}

\* a service on the machine the handler runs on
Loopback == "http://127.0.0.1:8080/admin"

\* new URL(u) of each of these urls, parsed once
Parses == [u \in Urls \cup {Loopback} |-> ParseScheme(u, IndexFrom(u, ":", 1))]

\* new URL(input)
ParseURL(input) ==
    IF input \in DOMAIN Parses THEN Parses[input]
    ELSE ParseScheme(input, IndexFrom(input, ":", 1))

\* ----------------------------------------------------------- URL resolution
\* new URL(value, baseUrl).href for an http / https base.  Modelled: the
\* serializer of absolute urls (scheme and host lower-cased, default port
\* dropped, empty path written "/"), scheme-relative, path-absolute,
\* path-relative, query-only, fragment-only and empty references, dot
\* segments.  Inputs carry no userinfo, no character the serializer would
\* percent-encode, no backslash, and no special scheme without its slashes.

\* the path of s split at "/": s starts with "/" and has no query or fragment
RECURSIVE Segments(_)
Segments(s) ==
    IF Len(s) = 0 THEN <<>>
    ELSE <<SubSeq(s, 2, FirstOf(s, {"/"}, 2) - 1)>>
             \o Segments(SubSeq(s, FirstOf(s, {"/"}, 2), Len(s)))

DropLast(out) == IF Len(out) = 0 THEN out ELSE SubSeq(out, 1, Len(out) - 1)

\* the path state of the parser: "." and ".." segments are resolved, and one
\* that ends the path leaves an empty last segment
RECURSIVE ShortenPath(_, _, _)
ShortenPath(segs, i, out) ==
    IF i > Len(segs) THEN out
    ELSE IF segs[i] = ".."
    THEN ShortenPath(segs, i + 1,
                     IF i = Len(segs) THEN Append(DropLast(out), "") ELSE DropLast(out))
    ELSE IF segs[i] = "."
    THEN ShortenPath(segs, i + 1, IF i = Len(segs) THEN Append(out, "") ELSE out)
    ELSE ShortenPath(segs, i + 1, Append(out, segs[i]))

RECURSIVE JoinPath(_, _)
JoinPath(segs, i) ==
    IF i > Len(segs) THEN "" ELSE "/" \o segs[i] \o JoinPath(segs, i + 1)

\* the serialized path of a path that starts with "/" ("/" when it is empty)
NormalPath(path) ==
    IF Len(path) = 0 THEN "/" ELSE JoinPath(ShortenPath(Segments(path), 1, <<>>), 1)

\* path, then query and fragment as written
PathAndRest(tail, cut) ==
    NormalPath(SubSeq(tail, 1, cut - 1)) \o SubSeq(tail, cut, Len(tail))

\* what follows the authority, serialized
TailOf(after, from) ==
    PathAndRest(SubSeq(after, from, Len(after)),
                FirstOf(SubSeq(after, from, Len(after)), {"?", "#"}, 1))

DefaultPort(scheme) == IF scheme = "http" THEN 80 ELSE IF scheme = "https" THEN 443 ELSE 0

\* the port as the serializer writes it: nothing for none and for the default
PortTextAt(scheme, hp, colon) ==
    IF colon = 0 \/ colon = Len(hp) THEN ""
    ELSE IF ParseDec(SubSeq(hp, colon + 1, Len(hp)), 0) = DefaultPort(scheme) THEN ""
    ELSE ":" \o ToDec(ParseDec(SubSeq(hp, colon + 1, Len(hp)), 0))

PortText(scheme, hp) == PortTextAt(scheme, hp, PortColon(hp))

\* a resolved url: ok, and its href
NoHref == [ok |-> FALSE, href |-> ""]

Href(text) == [ok |-> TRUE, href |-> text]

\* serializer of an http / https url; after is what follows the slashes
SpecialHref(parsed, scheme, after) ==
    IF ~parsed.ok THEN NoHref
    ELSE Href(scheme \o "://" \o parsed.hostname \o PortText(scheme, Authority(after))
                  \o TailOf(after, FirstOf(after, {"/", "?", "#"}, 1)))

\* serializer of an absolute url: a scheme without slashes (data:, mailto:,
\* javascript:) keeps what follows as an opaque path
AbsoluteHrefAt(input, scheme, rest) ==
    IF scheme \in {"http", "https"}
    THEN SpecialHref(ParseURL(input), scheme,
                     SubSeq(rest, SkipWhile(rest, {"/"}, 1) + 1, Len(rest)))
    ELSE IF ~ParseURL(input).ok THEN NoHref
    ELSE Href(scheme \o ":" \o rest)

AbsoluteHref(input, colon) ==
    AbsoluteHrefAt(input, ToLower(SubSeq(input, 1, colon - 1)),
                   SubSeq(input, colon + 1, Len(input)))

\* the value starts with a scheme
HasSchemeAt(value, colon) ==
    /\ colon >= 2
    /\ Char(value, 1) \in AlphaSet
    /\ AllIn(SubSeq(value, 1, colon - 1), SchemeCharSet)

HasScheme(value) == HasSchemeAt(value, IndexFrom(value, ":", 1))

\* the parts of a serialized http / https url
SchemeOf(href) == SubSeq(href, 1, IndexFrom(href, ":", 1) - 1)

\* index of the "/" that starts the path
PathStart(href) == IndexFrom(href, "/", IndexFrom(href, ":", 1) + 3)

\* URL.origin
OriginOf(href) == SubSeq(href, 1, PathStart(href) - 1)

PathOf(href) == SubSeq(href, PathStart(href), FirstOf(href, {"?", "#"}, 1) - 1)

\* the path up to and with its last "/"
DirOf(path) == SubSeq(path, 1, LastIndexTo(path, "/", Len(path)))

\* a reference without a scheme against the serialized base
RelativeHref(value, base, cut) ==
    IF Len(value) = 0 THEN Href(SubSeq(base, 1, FirstOf(base, {"#"}, 1) - 1))
    ELSE IF StartsWith(value, "//")
    THEN AbsoluteHref(SchemeOf(base) \o ":" \o value, Len(SchemeOf(base)) + 1)
    ELSE IF Char(value, 1) = "/" THEN Href(OriginOf(base) \o PathAndRest(value, cut))
    ELSE IF Char(value, 1) = "?"
    THEN Href(OriginOf(base) \o PathOf(base) \o value)
    ELSE IF Char(value, 1) = "#"
    THEN Href(SubSeq(base, 1, FirstOf(base, {"#"}, 1) - 1) \o value)
    ELSE Href(OriginOf(base) \o PathAndRest(DirOf(PathOf(base)) \o value,
                                            Len(DirOf(PathOf(base))) + cut))

\* new URL(value, base): ok = FALSE stands for the TypeError it throws
Resolve(value, base) ==
    IF HasScheme(value) THEN AbsoluteHref(value, IndexFrom(value, ":", 1))
    ELSE RelativeHref(value, base, FirstOf(value, {"?", "#"}, 1))

\* new URL(input).href of a url the handler accepted
PageHrefs == [u \in Urls |-> AbsoluteHref(u, IndexFrom(u, ":", 1)).href]

PageHref(input) ==
    IF input \in DOMAIN PageHrefs THEN PageHrefs[input]
    ELSE AbsoluteHref(input, IndexFrom(input, ":", 1)).href

\* ------------------------------------------------------- percent-encoding
\* the characters encodeURIComponent leaves as they are
UnreservedSet ==
    AlphaSet \cup DigitSet \cup {"-", "_", ".", "!", "~", "*", "'", "(", ")"}

\* the escape of each other character the inputs use
Escapes ==
    <<<<" ", "%20">>, <<"#", "%23">>, <<"$", "%24">>, <<"%", "%25">>, <<"&", "%26">>,
      <<"+", "%2B">>, <<",", "%2C">>, <<"/", "%2F">>, <<":", "%3A">>, <<";", "%3B">>,
      <<"=", "%3D">>, <<"?", "%3F">>, <<"@", "%40">>, <<"[", "%5B">>, <<"]", "%5D">>>>

EscapeOf(c) == Escapes[CHOOSE i \in 1 .. Len(Escapes) : Escapes[i][1] = c][2]

IsEscape(e) == \E i \in 1 .. Len(Escapes) : Escapes[i][2] = e

UnescapeOf(e) == Escapes[CHOOSE i \in 1 .. Len(Escapes) : Escapes[i][2] = e][1]

RECURSIVE encodeURIComponent(_)
encodeURIComponent(s) ==
    IF Len(s) = 0 THEN s
    ELSE (IF Char(s, 1) \in UnreservedSet THEN Char(s, 1) ELSE EscapeOf(Char(s, 1)))
             \o encodeURIComponent(SubSeq(s, 2, Len(s)))

\* the decoding the query parser of the proxy applies to the url parameter
RECURSIVE decodeURIComponent(_)
decodeURIComponent(s) ==
    IF Len(s) = 0 THEN s
    ELSE IF Len(s) >= 3 /\ IsEscape(SubSeq(s, 1, 3))
    THEN UnescapeOf(SubSeq(s, 1, 3)) \o decodeURIComponent(SubSeq(s, 4, Len(s)))
    ELSE Char(s, 1) \o decodeURIComponent(SubSeq(s, 2, Len(s)))

\* ------------------------------------------------------------------ state
VARIABLES
    handler,           \* which deployment runs: "learn", "vercel", "proxy", "legacy"
    THROTTLE_ENABLED,  \* process.env.THROTTLE_ENABLED !== 'false'
    req,               \* req[r]: the inbound request (method, query url)
    pc,                \* pc[r]: the await the handler of r is suspended at
    hb,                \* hb[r]: the browser handle r holds (browserInstance / browser)
    pageVar,           \* pageVar[r]: the handler's local `page` is non-null
    pages,             \* pages[r]: the page target created for r
    browser,           \* src/server.js: the global `browser`
    browsers,          \* browsers[b]: the browser process launched by launcher b
    resp,              \* resp[r]: the responses sent for r, in order
    escaped,           \* escaped[r]: the handler's promise rejected
    fx,                \* fx[r]: what the handler has started so far
    startup,           \* src/server.js: the app.listen callback
    shutdown,          \* the SIGTERM / SIGINT handler
    env,               \* the environment of the run: the requests in use, the urls and
                       \* methods they send, the navigation errors, whether signals arrive
    probe,             \* input of a pure function under check
    verdict,           \* its result
    NODE_ENV,          \* process.env.NODE_ENV ("" stands for unset)
    stages,            \* stages[r]: the stages the handler of r has started, in order
    caught             \* caught[r]: the error the catch block of r received

vars == <<handler, THROTTLE_ENABLED, req, pc, hb, pageVar, pages, browser, browsers,
          resp, escaped, fx, startup, shutdown, env, probe, verdict, NODE_ENV, stages,
          caught>>

\* launcher 0 is the app.listen callback, launcher r the handler of request r
Launchers == 0 .. NumReq

NoB == -1

NoReq == [method |-> "", url |-> ""]

\* parseInt(process.env.THROTTLE_MIN_MS) || 100, parseInt(process.env.THROTTLE_MAX_MS) || 500
THROTTLE_MIN_MS == 100

THROTTLE_MAX_MS == 500

\* Math.random() * RandomScale: 0 and the values next to it, the middle, the
\* values next to 1
Randoms == {0, 1, RandomScale \div 2, RandomScale - 3, RandomScale - 2, RandomScale - 1}

NoProbe == [kind |-> "none"]

\* an error object: its message, its code and the status of its response
\* (axios errors; 0 when it has none)
Thrown(message, code, status) ==
    [thrown |-> TRUE, message |-> message, code |-> code, status |-> status]

NoError == [thrown |-> FALSE, message |-> "", code |-> "", status |-> 0]

NodeEnvs == {"development", "production", ""}

\* ------------------------------------------------------------------ inputs
Methods == {"GET", "POST", "OPTIONS"}

NoClients == [reqs |-> {}, urls |-> {}, methods |-> {}, errors |-> {}, fetches |-> {},
              randoms |-> {}, redirects |-> {}, cookies |-> {}]

\* an HTML document: the http-equiv values of its meta elements, the href of
\* its first base element ("" when it has none) and its url-carrying
\* attributes, in document order
NoDoc == [metas |-> {}, base |-> "", attrs |-> <<>>]

\* the attribute rewriteUrls selects on an element of this kind: a[href],
\* form[action], img[src], script[src], link[href]
Attr(kind, value) == [kind |-> kind, value |-> value]

\* what the target serves: a response (status, content-type, and its body as
\* a document or as bytes) reached through `hops` redirects, or an error
\* (code); status 0 stands for no response; `via` holds the hosts other than
\* the target's that the redirects led to
Upstream(status, ctype, code) ==
    [status |-> status, ctype |-> ctype, code |-> code, hops |-> 0, doc |-> NoDoc,
     bytes |-> <<>>, via |-> {}]

NoUpstream == Upstream(0, "", "")

\* what a handler has started so far, the throttle delay it drew, what the
\* target served it, the state of the page when page.content() was called,
\* the hosts its outbound request or navigation went to, whether the target
\* stored a cookie in the browser, and the requests whose cookies its
\* navigation carried
NoFx == [throttle |-> FALSE, launch |-> FALSE, newPage |-> FALSE, outbound |-> FALSE,
         closeP |-> FALSE, closePThrew |-> FALSE, closeB |-> FALSE, closeBThrew |-> FALSE,
         delay |-> 0, fetched |-> NoUpstream, contentOn |-> "none", hosts |-> {},
         stored |-> FALSE, seen |-> {}]

HtmlOk == Upstream(200, "text/html; charset=utf-8", "")

\* a page served as text/html
Page(doc) == [HtmlOk EXCEPT !.doc = doc]

\* meta http-equiv elements in several letter cases
PageMetas ==
    Page([NoDoc EXCEPT !.metas = {"X-Frame-Options", "content-security-policy",
                                  "X-CONTENT-TYPE-OPTIONS", "refresh"}])

\* one well-formed reference of each attribute kind, and an empty one
PageLinks ==
    Page([NoDoc EXCEPT !.attrs = <<Attr("a", "/about?x=1#top"), Attr("form", "search"),
                                   Attr("img", "//Cdn.Example.com/i.png"),
                                   Attr("script", "https://Cdn.Example.com:443/app.js"),
                                   Attr("link", "../style.css"), Attr("a", "")>>])

\* a data: URI in each attribute kind
PageData ==
    Page([NoDoc EXCEPT !.attrs = <<Attr("a", "data:text/html,hi"), Attr("form", "data:,x"),
                                   Attr("img", "data:image/png;base64,AAAA"),
                                   Attr("script", "data:text/javascript,1"),
                                   Attr("link", "data:text/css,a")>>])

\* a reference new URL rejects, followed by a well-formed one
PageMalformed ==
    Page([NoDoc EXCEPT !.attrs = <<Attr("a", "http://exa mple.com/"),
                                   Attr("img", "/logo.png")>>])

\* the PNG signature starts with byte 0x89
PngOk == [Upstream(200, "image/png", "") EXCEPT !.bytes = <<137, 80, 78, 71>>]

\* "h\u00e9" in UTF-8
TextOk == [Upstream(200, "text/plain", "") EXCEPT !.bytes = <<104, 195, 169>>]

\* the same answer behind a chain of redirects
Redirected(up, hops) == [up EXCEPT !.hops = hops]

\* the target answers with a redirect to `location`, which serves the answer
RedirectedTo(up, location) ==
    [up EXCEPT !.hops = 1, !.via = {ParseURL(location).hostname}]

TooManyRedirects == Upstream(0, "", "ERR_FR_TOO_MANY_REDIRECTS")

NotFound == Upstream(0, "", "ENOTFOUND")

Refused == Upstream(0, "", "ECONNREFUSED")

Status404 == Upstream(404, "text/html", "ERR_BAD_REQUEST")

Status429 == Upstream(429, "text/html", "ERR_BAD_REQUEST")

\* the `timeout: 30000` of axios.get expires: axios aborts the request and
\* rejects with code ECONNABORTED
TimedOut == Upstream(0, "", "ECONNABORTED")

\* the TCP connect times out in the operating system
ConnectTimedOut == Upstream(0, "", "ETIMEDOUT")

CertExpired == Upstream(0, "", "CERT_HAS_EXPIRED")

SelfSigned == Upstream(0, "", "DEPTH_ZERO_SELF_SIGNED_CERT")

Fetches == {HtmlOk, PngOk, NotFound, Refused, Status404, Status429, TimedOut, ConnectTimedOut,
            CertExpired, SelfSigned, PageMetas, PageLinks, PageData, PageMalformed, TextOk,
            Redirected(PngOk, 5), Redirected(PngOk, 6), Redirected(PngOk, 10),
            Redirected(PngOk, 11), Redirected(HtmlOk, 10), RedirectedTo(TextOk, Loopback)}

\* error.message of the error axios.get rejects with
AxiosMessage(up) ==
    IF up.status # 0 THEN "Request failed with status code " \o ToDec(up.status)
    ELSE IF up.code = "ENOTFOUND" THEN "getaddrinfo ENOTFOUND example.com"
    ELSE IF up.code = "ECONNREFUSED" THEN "connect ECONNREFUSED 93.184.216.34:443"
    ELSE IF up.code = "ECONNABORTED" THEN "timeout of 30000ms exceeded"
    ELSE IF up.code = "ETIMEDOUT" THEN "connect ETIMEDOUT 93.184.216.34:443"
    ELSE IF up.code = "CERT_HAS_EXPIRED" THEN "certificate has expired"
    ELSE IF up.code = "ERR_FR_TOO_MANY_REDIRECTS" THEN "Maximum number of redirects exceeded"
    ELSE "self signed certificate"

AxiosError(up) == Thrown(AxiosMessage(up), up.code, up.status)

\* messages of the errors the browser driver throws
LaunchFailedMsg == "Failed to launch the browser process!"

TargetClosedMsg == "Protocol error (Target.createTarget): Target closed."

NavTimeoutMsg == "Navigation timeout of 30000 ms exceeded"

NameNotResolvedMsg == "net::ERR_NAME_NOT_RESOLVED at https://example.com"

ConnectionRefusedMsg == "net::ERR_CONNECTION_REFUSED at https://example.com"

AbortedMsg == "net::ERR_ABORTED at https://example.com"

ProtocolErrorMsg == "Protocol error (Page.navigate): Cannot navigate to invalid URL"

\* the page or the browser went away while the navigation was under way
DisconnectedMsg == "Navigation failed because browser has disconnected!"

SessionClosedMsg == "Target page, context or browser has been closed"

\* new Error(): an error with an empty message
EmptyMsg == ""

NavErrorMsgs == {NavTimeoutMsg, NameNotResolvedMsg, TargetClosedMsg, ConnectionRefusedMsg,
                 AbortedMsg, ProtocolErrorMsg, DisconnectedMsg, SessionClosedMsg, EmptyMsg}

\* clients of the concurrent runs: every request slot, one blocked and one
\* public target, navigations that succeed or time out
ManyClients == [reqs |-> Reqs, urls |-> {"http://localhost:8080/admin", "https://example.com"},
                methods |-> {"GET"}, errors |-> {NavTimeoutMsg}, fetches |-> {HtmlOk, NotFound},
                randoms |-> {0}, redirects |-> {{}}, cookies |-> {FALSE}]

\* one client, every url, method, navigation error and upstream answer; a
\* navigation may be redirected to the loopback service
OneClient == [reqs |-> {1}, urls |-> Urls, methods |-> Methods, errors |-> NavErrorMsgs,
              fetches |-> Fetches, randoms |-> Randoms,
              redirects |-> {{}, {ParseURL(Loopback).hostname}}, cookies |-> {FALSE}]

\* clients of the persistent process that visit one site, which may store a
\* cookie in the browser
SharedClients == [reqs |-> Reqs, urls |-> {"https://example.com"}, methods |-> {"GET"},
                  errors |-> {NavTimeoutMsg}, fetches |-> {}, randoms |-> {0},
                  redirects |-> {{}}, cookies |-> BOOLEAN]

\* ------------------------------------------------------- shared machinery
\* a response: the HTTP status, the names of the fields of its JSON body and
\* the values of statusCode, url, details and hostname in it (0 and "" when
\* absent), whether the handler set Access-Control-Allow-Origin on it, its
\* Content-Type, and its body when that is a document or a byte sequence
Body(status, fields, statusCode, url, details) ==
    [status |-> status, fields |-> fields, statusCode |-> statusCode, url |-> url,
     details |-> details, hostname |-> "", cors |-> FALSE, ctype |-> "application/json",
     doc |-> NoDoc, bytes |-> <<>>]

\* the response after res.set / res.setHeader of the Access-Control-* headers
WithCors(reply) == [reply EXCEPT !.cors = TRUE]

\* res.send of an HTML string
HtmlReply(doc) ==
    [WithCors(Body(200, {"html"}, 0, "", "")) EXCEPT !.ctype = "text/html; charset=utf-8",
                                                     !.doc = doc]

Reply(status, fields) == Body(status, fields, 0, "", "")

\* mutant: details carries the message whatever NODE_ENV is
Details_Always(message) == message

\* details: process.env.NODE_ENV === 'development' ? error.message : undefined
\* (JSON.stringify leaves an undefined field out)
DetailsField == IF NODE_ENV = "development" THEN {"details"} ELSE {}

Details(message) == IF NODE_ENV = "development" THEN message ELSE ""

Set(f, r, v) == [f EXCEPT ![r] = v]

Mark(r, flag) == [fx EXCEPT ![r][flag] = TRUE]

\* mutant: the delay is drawn from min .. max, both ends included
ThrottleDelay_Inclusive(random) ==
    (random * (THROTTLE_MAX_MS - THROTTLE_MIN_MS + 1)) \div RandomScale + THROTTLE_MIN_MS

\* Math.floor(Math.random() * (THROTTLE_MAX_MS - THROTTLE_MIN_MS)) + THROTTLE_MIN_MS
\* for Math.random() = random / RandomScale
ThrottleDelay(random) ==
    (random * (THROTTLE_MAX_MS - THROTTLE_MIN_MS)) \div RandomScale + THROTTLE_MIN_MS

\* setTimeout(resolve, throttleDelay) is called for request r
Throttle(r, random) ==
    fx' = [fx EXCEPT ![r].throttle = TRUE, ![r].delay = ThrottleDelay(random)]

Running == shutdown # "exited"

ProbeIdle == UNCHANGED <<env, probe, verdict>>

ConfigSame == UNCHANGED <<handler, THROTTLE_ENABLED, NODE_ENV>>

Stage(r, seq) == stages' = Set(stages, r, stages[r] \o seq)

Catches(r, e) == caught' = Set(caught, r, e)

Quiet == UNCHANGED <<stages, caught>>

\* 400 for a url new URL() rejects, 403 for a hostname the guard matches
StatusOfParsed(parsedUrl) ==
    IF ~parsedUrl.ok THEN 400
    ELSE IF isPrivateIP(parsedUrl.hostname) THEN 403
    ELSE 0

\* mutant: the validation without the SSRF guard
ValidationStatus_NoGuard(url) ==
    IF url = "" THEN 400
    ELSE IF ~ParseURL(url).ok THEN 400
    ELSE 0

\* the validation every handler performs on req.query.url before anything
\* else: 0 when the request passes, else the status it is answered with
ValidationStatus(url) ==
    IF url = "" THEN 400 ELSE StatusOfParsed(ParseURL(url))

\* the stages a browser-render handler starts on arrival: the url checks,
\* the guard on the parsed hostname, the answer of a rejected request, the
\* throttle timer of an accepted one
EntryStages(url, throttled) ==
    IF url = "" \/ ~ParseURL(url).ok THEN <<"validate", "emit">>
    ELSE IF isPrivateIP(ParseURL(url).hostname) THEN <<"validate", "ssrf", "emit">>
    ELSE IF throttled THEN <<"validate", "ssrf", "throttle">>
    ELSE <<"validate", "ssrf">>

Deployed ==
    /\ handler \in {"learn", "vercel", "proxy", "legacy"}
    /\ THROTTLE_ENABLED \in (IF handler = "legacy" THEN {FALSE} ELSE BOOLEAN)
    /\ req = [r \in Reqs |-> NoReq]
    /\ pc = [r \in Reqs |-> "idle"]
    /\ hb = [r \in Reqs |-> NoB]
    /\ pageVar = [r \in Reqs |-> FALSE]
    /\ pages = [r \in Reqs |-> "none"]
    /\ browser = NoB
    /\ browsers = [b \in Launchers |-> "none"]
    /\ resp = [r \in Reqs |-> <<>>]
    /\ escaped = [r \in Reqs |-> FALSE]
    /\ fx = [r \in Reqs |-> NoFx]
    /\ startup = "idle"
    /\ shutdown = "none"
    /\ probe = NoProbe
    /\ verdict = FALSE
    /\ stages = [r \in Reqs |-> <<>>]
    /\ caught = [r \in Reqs |-> NoError]

\* concurrent clients of a production deployment
Init == Deployed /\ env = ManyClients /\ NODE_ENV = "production"

\* a single client sending any input, under any NODE_ENV
InitOne == Deployed /\ env = OneClient /\ NODE_ENV \in NodeEnvs

\* ------------------------------------------- src/server.js: /learn handler
\* mutant: the chain without its net::ERR_ABORTED rule
LearnClassify_NoAborted(msg) ==
    IF Includes(msg, "Navigation timeout") THEN 504
    ELSE IF Includes(msg, "net::ERR_NAME_NOT_RESOLVED") THEN 404
    ELSE IF Includes(msg, "net::ERR_CONNECTION_REFUSED") THEN 503
    ELSE IF Includes(msg, "Protocol error") THEN 502
    ELSE 500

\* the if / else-if chain of the catch block on error.message
LearnClassify(msg) ==
    IF Includes(msg, "Navigation timeout") THEN 504
    ELSE IF Includes(msg, "net::ERR_NAME_NOT_RESOLVED") THEN 404
    ELSE IF Includes(msg, "net::ERR_CONNECTION_REFUSED") THEN 503
    ELSE IF Includes(msg, "net::ERR_ABORTED") THEN 403
    ELSE IF Includes(msg, "Protocol error") THEN 502
    ELSE 500

ErrorFields == {"error", "url", "statusCode"}

\* res.status(statusCode).json({ error, url: req.query.url, statusCode, details })
ErrorReply(statusCode, url, message) ==
    Body(statusCode, ErrorFields \cup DetailsField, statusCode, url, Details(message))

\* initBrowser() called by launcher who: returns the global when it is set,
\* else starts puppeteer.launch and suspends
initBrowser(who) ==
    IF browser # NoB
    THEN UNCHANGED browsers
    ELSE browsers' = Set(browsers, who, "launching")

\* mutant: the handler without its finally block
LearnFinally_Skip(r, f) ==
    pc' = Set(pc, r, "done") /\ fx' = f

\* the finally block: page.close() is called when `page` is set
LearnFinally(r, f) ==
    IF pageVar[r]
    THEN pc' = Set(pc, r, "closing") /\ fx' = [f EXCEPT ![r].closeP = TRUE]
    ELSE pc' = Set(pc, r, "done") /\ fx' = f

\* mutant: the catch block ends the request; the page is closed on the
\* success path only
LearnCatch_NoCleanup(r, msg) ==
    /\ resp' = Set(resp, r, Append(resp[r], ErrorReply(LearnClassify(msg), req[r].url, msg)))
    /\ Stage(r, <<"emit">>) /\ Catches(r, Thrown(msg, "", 0))
    /\ pc' = Set(pc, r, "done")
    /\ fx' = fx

\* an exception with message msg thrown inside the try block: the catch
\* block answers, then the finally block runs
LearnCatch(r, msg) ==
    /\ resp' = Set(resp, r, Append(resp[r], ErrorReply(LearnClassify(msg), req[r].url, msg)))
    /\ Stage(r, <<"emit">>) /\ Catches(r, Thrown(msg, "", 0))
    /\ LearnFinally(r, fx)

\* mutant: the handler takes the shared browser only while no other request
\* is navigating with it
LearnAcquire_Queued(r, f) ==
    /\ \A q \in Reqs \ {r} : pc[q] \notin {"goto", "wait"}
    /\ initBrowser(r)
    /\ IF browser # NoB
       THEN /\ hb' = Set(hb, r, browser)
            /\ pc' = Set(pc, r, "newPage")
            /\ fx' = [f EXCEPT ![r].newPage = TRUE]
       ELSE /\ hb' = hb
            /\ pc' = Set(pc, r, "launching")
            /\ fx' = [f EXCEPT ![r].launch = TRUE]

\* await initBrowser() as called by the handler of r
LearnAcquire(r, f) ==
    /\ initBrowser(r)
    /\ IF browser # NoB
       THEN /\ hb' = Set(hb, r, browser)
            /\ pc' = Set(pc, r, "newPage")
            /\ fx' = [f EXCEPT ![r].newPage = TRUE]
       ELSE /\ hb' = hb
            /\ pc' = Set(pc, r, "launching")
            /\ fx' = [f EXCEPT ![r].launch = TRUE]

\* app.listen callback: await initBrowser()
LearnListen ==
    /\ handler = "learn" /\ Running /\ startup = "idle"
    /\ initBrowser(0)
    /\ startup' = "launching"
    /\ UNCHANGED <<req, pc, hb, pageVar, pages, browser, resp, escaped, fx, shutdown>>
    /\ ConfigSame /\ ProbeIdle /\ Quiet

\* the launch started by the callback settles; a failure is caught and logged
LearnStartupLaunched ==
    /\ handler = "learn" /\ Running /\ startup = "launching"
    /\ \/ browsers' = Set(browsers, 0, "open") /\ browser' = 0
       \/ browsers' = Set(browsers, 0, "failed") /\ browser' = browser
    /\ startup' = "done"
    /\ UNCHANGED <<req, pc, hb, pageVar, pages, resp, escaped, fx, shutdown>>
    /\ ConfigSame /\ ProbeIdle /\ Quiet

\* a request app.get('/learn') does not route: the cors middleware ends a
\* preflight with 204, any other method reaches the 404 handler
LearnRouteMiss(method) ==
    IF method = "OPTIONS" THEN Body(204, {}, 0, "", "")
    ELSE Reply(404, {"error", "availableEndpoints"})

\* request arrives: routing, validation, SSRF guard, then the throttle timer
\* or initBrowser
LearnEntry(r) ==
    /\ handler = "learn" /\ Running /\ startup # "idle" /\ pc[r] = "idle"
    /\ r \in env.reqs
    /\ \E method \in env.methods, url \in env.urls :
         /\ req' = Set(req, r, [method |-> method, url |-> url])
         /\ Stage(r, IF method # "GET" THEN <<"emit">>
                      ELSE EntryStages(url, THROTTLE_ENABLED))
         /\ IF method # "GET"
            THEN /\ resp' = Set(resp, r, <<LearnRouteMiss(method)>>)
                 /\ pc' = Set(pc, r, "done")
                 /\ UNCHANGED <<hb, browsers, fx>>
            ELSE IF ValidationStatus(url) # 0
            THEN /\ resp' = Set(resp, r, <<Reply(ValidationStatus(url), {"error"})>>)
                 /\ pc' = Set(pc, r, "done")
                 /\ UNCHANGED <<hb, browsers, fx>>
            ELSE IF THROTTLE_ENABLED
            THEN /\ pc' = Set(pc, r, "throttle")
                 /\ \E random \in env.randoms : Throttle(r, random)
                 /\ UNCHANGED <<hb, browsers, resp>>
            ELSE LearnAcquire(r, fx) /\ resp' = resp
    /\ UNCHANGED <<pageVar, pages, browser, escaped, startup, shutdown, caught>>
    /\ ConfigSame /\ ProbeIdle

\* the throttle timer fires
LearnThrottled(r) ==
    /\ handler = "learn" /\ Running /\ pc[r] = "throttle"
    /\ LearnAcquire(r, fx)
    /\ UNCHANGED <<req, pageVar, pages, browser, resp, escaped, startup, shutdown>>
    /\ ConfigSame /\ ProbeIdle /\ Quiet

\* puppeteer.launch of the handler's initBrowser call settles
LearnLaunched(r) ==
    /\ handler = "learn" /\ Running /\ pc[r] = "launching"
    /\ \/ /\ browsers' = Set(browsers, r, "open")
          /\ browser' = r
          /\ hb' = Set(hb, r, r)
          /\ pc' = Set(pc, r, "newPage")
          /\ fx' = Mark(r, "newPage")
          /\ resp' = resp
          /\ Quiet
       \/ /\ browsers' = Set(browsers, r, "failed")
          /\ LearnCatch(r, LaunchFailedMsg)
          /\ UNCHANGED <<browser, hb>>
    /\ UNCHANGED <<req, pageVar, pages, escaped, startup, shutdown>>
    /\ ConfigSame /\ ProbeIdle

\* browserInstance.newPage() settles
LearnNewPage(r) ==
    /\ handler = "learn" /\ Running /\ pc[r] = "newPage"
    /\ \/ /\ browsers[hb[r]] = "open"
          /\ pages' = Set(pages, r, "open")
          /\ pageVar' = Set(pageVar, r, TRUE)
          /\ pc' = Set(pc, r, "setup")
          /\ UNCHANGED <<resp, fx>>
          /\ Quiet
       \/ /\ LearnCatch(r, TargetClosedMsg)
          /\ UNCHANGED <<pages, pageVar>>
    /\ UNCHANGED <<req, hb, browser, browsers, escaped, startup, shutdown>>
    /\ ConfigSame /\ ProbeIdle

\* browserInstance.newPage() opens the page in the default context of the
\* browser, whose cookie store all its pages share: the requests whose
\* target stored a cookie there for the site r navigates to
CookiesOf(r) ==
    {q \in Reqs \ {r} :
        /\ fx[q].stored /\ hb[q] = hb[r]
        /\ ParseURL(req[q].url).hostname = ParseURL(req[r].url).hostname}

\* setViewport, setUserAgent and the setExtraHTTPHeaders calls settle; then
\* page.goto starts
LearnSetup(r) ==
    /\ handler = "learn" /\ Running /\ pc[r] = "setup"
    /\ \/ /\ pages[r] = "open"
          /\ pc' = Set(pc, r, "goto")
          /\ fx' = [fx EXCEPT ![r].outbound = TRUE,
                              ![r].hosts = {ParseURL(req[r].url).hostname},
                              ![r].seen = CookiesOf(r)]
          /\ resp' = resp
          /\ Stage(r, <<"headers", "fetch">>) /\ caught' = caught
       \/ LearnCatch(r, TargetClosedMsg)
    /\ UNCHANGED <<req, hb, pageVar, pages, browser, browsers, escaped, startup, shutdown>>
    /\ ConfigSame /\ ProbeIdle

\* page.goto settles; on success page.waitForTimeout(1000) starts its timer
LearnGoto(r) ==
    /\ handler = "learn" /\ Running /\ pc[r] = "goto"
    /\ \/ /\ pages[r] = "open"
          /\ pc' = Set(pc, r, "wait")
          /\ \E via \in env.redirects, cookie \in env.cookies :
                 fx' = [fx EXCEPT ![r].hosts = @ \cup via, ![r].stored = cookie]
          /\ resp' = resp
          /\ Quiet
       \/ \E msg \in env.errors : LearnCatch(r, msg)
    /\ UNCHANGED <<req, hb, pageVar, pages, browser, browsers, escaped, startup, shutdown>>
    /\ ConfigSame /\ ProbeIdle

\* the timer of page.waitForTimeout(1000) fires (the wait touches nothing but
\* the clock): page.content() is called on the page as it is by then
LearnWaited(r) ==
    /\ handler = "learn" /\ Running /\ pc[r] = "wait"
    /\ pc' = Set(pc, r, "content")
    /\ fx' = [fx EXCEPT ![r].contentOn = pages[r]]
    /\ UNCHANGED <<req, hb, pageVar, pages, browser, browsers, resp, escaped, startup,
                   shutdown>>
    /\ ConfigSame /\ ProbeIdle /\ Quiet

\* page.content() settles: res.set, res.send, then the finally block
LearnContent(r) ==
    /\ handler = "learn" /\ Running /\ pc[r] = "content"
    /\ \/ /\ pages[r] = "open"
          /\ resp' = Set(resp, r, Append(resp[r], HtmlReply(NoDoc)))
          /\ Stage(r, <<"emit">>) /\ caught' = caught
          /\ LearnFinally(r, fx)
       \/ LearnCatch(r, TargetClosedMsg)
    /\ UNCHANGED <<req, hb, pageVar, pages, browser, browsers, escaped, startup, shutdown>>
    /\ ConfigSame /\ ProbeIdle

\* page.close() of the finally block settles; a throw is caught and logged,
\* and the target is then as it was
LearnPageClosed(r) ==
    /\ handler = "learn" /\ Running /\ pc[r] = "closing"
    /\ \/ /\ pages' = Set(pages, r, "closed")
          /\ fx' = fx
       \/ /\ pages' = pages
          /\ fx' = Mark(r, "closePThrew")
    /\ pc' = Set(pc, r, "done")
    /\ UNCHANGED <<req, hb, pageVar, browser, browsers, resp, escaped, startup, shutdown>>
    /\ ConfigSame /\ ProbeIdle /\ Quiet

\* the process of browser b ends or its connection drops: a crash, or
\* Browser.close taking effect while gracefulShutdown awaits browser.close().
\* Its pages close with it; no 'disconnected' listener is registered, so the
\* global `browser` keeps the handle
LearnBrowserGone ==
    /\ handler = "learn" /\ Running
    /\ \E b \in Launchers :
         /\ browsers[b] = "open"
         /\ browsers' = Set(browsers, b, "disconnected")
         /\ pages' = [r \in Reqs |-> IF hb[r] = b /\ pages[r] = "open"
                                     THEN "closed" ELSE pages[r]]
    /\ UNCHANGED <<req, pc, hb, pageVar, browser, resp, escaped, fx, startup, shutdown>>
    /\ ConfigSame /\ ProbeIdle /\ Quiet

\* gracefulShutdown on SIGTERM / SIGINT: browser.close() when the global is set
LearnSignal ==
    /\ handler = "learn" /\ shutdown = "none" /\ startup # "idle"
    /\ shutdown' = IF browser # NoB THEN "closing" ELSE "exited"
    /\ UNCHANGED <<req, pc, hb, pageVar, pages, browser, browsers, resp, escaped, fx, startup>>
    /\ ConfigSame /\ ProbeIdle /\ Quiet

\* browser.close() of gracefulShutdown settles (a throw is logged); process.exit(0)
LearnShutdownClosed ==
    /\ handler = "learn" /\ shutdown = "closing"
    /\ \/ /\ browsers' = Set(browsers, browser, "closed")
          /\ pages' = [r \in Reqs |-> IF hb[r] = browser /\ pages[r] = "open"
                                      THEN "closed" ELSE pages[r]]
       \/ UNCHANGED <<browsers, pages>>
    /\ shutdown' = "exited"
    /\ UNCHANGED <<req, pc, hb, pageVar, browser, resp, escaped, fx, startup>>
    /\ ConfigSame /\ ProbeIdle /\ Quiet

LearnNext ==
    \/ LearnListen
    \/ LearnStartupLaunched
    \/ \E r \in Reqs :
         \/ LearnEntry(r)
         \/ LearnThrottled(r)
         \/ LearnLaunched(r)
         \/ LearnNewPage(r)
         \/ LearnSetup(r)
         \/ LearnGoto(r)
         \/ LearnWaited(r)
         \/ LearnContent(r)
         \/ LearnPageClosed(r)

\* ---------------------------------- src/api/index.js: serverless handler
\* the if / else-if chain of the catch block on error.message
VercelClassify(msg) ==
    IF Includes(msg, "Navigation timeout") THEN 504
    ELSE IF Includes(msg, "net::ERR_NAME_NOT_RESOLVED") THEN 404
    ELSE IF Includes(msg, "net::ERR_CONNECTION_REFUSED") THEN 503
    ELSE IF Includes(msg, "net::ERR_ABORTED") THEN 403
    ELSE IF Includes(msg, "Protocol error") THEN 502
    ELSE IF Includes(msg, "Target page, context or browser has been closed") THEN 408
    ELSE 500

\* the bodies of the three validation rejections
VercelRejection(url) ==
    IF url = "" THEN Reply(400, {"error", "usage"})
    ELSE IF ~ParseURL(url).ok
    THEN Body(400, {"error", "details"}, 0, "",
              "Please provide a valid URL with protocol (http:// or https://)")
    ELSE [Reply(403, {"error", "hostname"}) EXCEPT !.hostname = ParseURL(url).hostname]

\* the catch block sets corsHeaders, then res.status(statusCode).json(...)
VercelErrorReply(statusCode, url, message) == WithCors(ErrorReply(statusCode, url, message))

\* the finally block: page.close() when `page` is set, then browser.close()
\* when `browser` is set
VercelFinally(r, f, hasBrowser) ==
    IF pageVar[r]
    THEN pc' = Set(pc, r, "closing") /\ fx' = [f EXCEPT ![r].closeP = TRUE]
    ELSE IF hasBrowser
    THEN pc' = Set(pc, r, "closingBrowser") /\ fx' = [f EXCEPT ![r].closeB = TRUE]
    ELSE pc' = Set(pc, r, "done") /\ fx' = f

VercelCatch(r, msg, hasBrowser) ==
    /\ resp' = Set(resp, r, Append(resp[r], VercelErrorReply(VercelClassify(msg), req[r].url, msg)))
    /\ Stage(r, <<"emit">>) /\ Catches(r, Thrown(msg, "", 0))
    /\ VercelFinally(r, fx, hasBrowser)

\* puppeteer.launch starts (after await chromium.executablePath)
VercelLaunch(r, f) ==
    /\ browsers' = Set(browsers, r, "launching")
    /\ pc' = Set(pc, r, "launching")
    /\ fx' = [f EXCEPT ![r].launch = TRUE]

\* invocation: method checks, validation, SSRF guard, applyThrottling
VercelEntry(r) ==
    /\ handler = "vercel" /\ pc[r] = "idle" /\ r \in env.reqs
    /\ \E method \in env.methods, url \in env.urls :
         /\ req' = Set(req, r, [method |-> method, url |-> url])
         /\ Stage(r, IF method # "GET" THEN <<"emit">>
                      ELSE EntryStages(url, THROTTLE_ENABLED))
         /\ IF method = "OPTIONS"
            THEN /\ resp' = Set(resp, r, <<Reply(200, {"message"})>>)
                 /\ pc' = Set(pc, r, "done")
                 /\ UNCHANGED <<browsers, fx>>
            ELSE IF method # "GET"
            THEN /\ resp' = Set(resp, r, <<Reply(405, {"error", "allowedMethods"})>>)
                 /\ pc' = Set(pc, r, "done")
                 /\ UNCHANGED <<browsers, fx>>
            ELSE IF ValidationStatus(url) # 0
            THEN /\ resp' = Set(resp, r, <<VercelRejection(url)>>)
                 /\ pc' = Set(pc, r, "done")
                 /\ UNCHANGED <<browsers, fx>>
            ELSE IF THROTTLE_ENABLED
            THEN /\ pc' = Set(pc, r, "throttle")
                 /\ \E random \in env.randoms : Throttle(r, random)
                 /\ UNCHANGED <<browsers, resp>>
            ELSE VercelLaunch(r, fx) /\ resp' = resp
    /\ UNCHANGED <<hb, pageVar, pages, browser, escaped, startup, shutdown, caught>>
    /\ ConfigSame /\ ProbeIdle

\* the timer of applyThrottling fires
VercelThrottled(r) ==
    /\ handler = "vercel" /\ pc[r] = "throttle"
    /\ VercelLaunch(r, fx)
    /\ UNCHANGED <<req, hb, pageVar, pages, browser, resp, escaped, startup, shutdown>>
    /\ ConfigSame /\ ProbeIdle /\ Quiet

\* puppeteer.launch settles; on success browser.newPage() starts
VercelLaunched(r) ==
    /\ handler = "vercel" /\ pc[r] = "launching"
    /\ \/ /\ browsers' = Set(browsers, r, "open")
          /\ hb' = Set(hb, r, r)
          /\ pc' = Set(pc, r, "newPage")
          /\ fx' = Mark(r, "newPage")
          /\ resp' = resp
          /\ Quiet
       \/ /\ browsers' = Set(browsers, r, "failed")
          /\ VercelCatch(r, LaunchFailedMsg, FALSE)
          /\ hb' = hb
    /\ UNCHANGED <<req, pageVar, pages, browser, escaped, startup, shutdown>>
    /\ ConfigSame /\ ProbeIdle

\* browser.newPage() settles
VercelNewPage(r) ==
    /\ handler = "vercel" /\ pc[r] = "newPage"
    /\ \/ /\ pages' = Set(pages, r, "open")
          /\ pageVar' = Set(pageVar, r, TRUE)
          /\ pc' = Set(pc, r, "setup")
          /\ UNCHANGED <<resp, fx>>
          /\ Quiet
       \/ /\ VercelCatch(r, TargetClosedMsg, TRUE)
          /\ UNCHANGED <<pages, pageVar>>
    /\ UNCHANGED <<req, hb, browser, browsers, escaped, startup, shutdown>>
    /\ ConfigSame /\ ProbeIdle

\* setViewport, setUserAgent and the setExtraHTTPHeaders calls settle; then
\* page.goto starts
VercelSetup(r) ==
    /\ handler = "vercel" /\ pc[r] = "setup"
    /\ \/ /\ pc' = Set(pc, r, "goto")
          /\ fx' = [fx EXCEPT ![r].outbound = TRUE,
                              ![r].hosts = {ParseURL(req[r].url).hostname}]
          /\ resp' = resp
          /\ Stage(r, <<"headers", "fetch">>) /\ caught' = caught
       \/ VercelCatch(r, TargetClosedMsg, TRUE)
    /\ UNCHANGED <<req, hb, pageVar, pages, browser, browsers, escaped, startup, shutdown>>
    /\ ConfigSame /\ ProbeIdle

\* page.goto settles; on success page.waitForTimeout(1000) starts its timer
VercelGoto(r) ==
    /\ handler = "vercel" /\ pc[r] = "goto"
    /\ \/ /\ pc' = Set(pc, r, "wait")
          /\ \E via \in env.redirects : fx' = [fx EXCEPT ![r].hosts = @ \cup via]
          /\ resp' = resp
          /\ Quiet
       \/ \E msg \in env.errors : VercelCatch(r, msg, TRUE)
    /\ UNCHANGED <<req, hb, pageVar, pages, browser, browsers, escaped, startup, shutdown>>
    /\ ConfigSame /\ ProbeIdle

\* the timer of page.waitForTimeout(1000) fires: page.content() is called
VercelWaited(r) ==
    /\ handler = "vercel" /\ pc[r] = "wait"
    /\ pc' = Set(pc, r, "content")
    /\ fx' = [fx EXCEPT ![r].contentOn = pages[r]]
    /\ UNCHANGED <<req, hb, pageVar, pages, browser, browsers, resp, escaped, startup,
                   shutdown>>
    /\ ConfigSame /\ ProbeIdle /\ Quiet

\* page.content() settles: the headers, res.status(200).send, then finally
VercelContent(r) ==
    /\ handler = "vercel" /\ pc[r] = "content"
    /\ \/ /\ resp' = Set(resp, r, Append(resp[r], HtmlReply(NoDoc)))
          /\ Stage(r, <<"emit">>) /\ caught' = caught
          /\ VercelFinally(r, fx, TRUE)
       \/ VercelCatch(r, TargetClosedMsg, TRUE)
    /\ UNCHANGED <<req, hb, pageVar, pages, browser, browsers, escaped, startup, shutdown>>
    /\ ConfigSame /\ ProbeIdle

\* mutant: page.close() outside a try of its own, so its throw leaves the
\* finally block before browser.close()
VercelPageClosed_Propagates(r) ==
    /\ handler = "vercel" /\ pc[r] = "closing"
    /\ \/ /\ pages' = Set(pages, r, "closed")
          /\ fx' = [fx EXCEPT ![r].closeB = TRUE]
          /\ pc' = Set(pc, r, "closingBrowser")
          /\ escaped' = escaped
       \/ /\ pages' = pages
          /\ fx' = [fx EXCEPT ![r].closePThrew = TRUE]
          /\ pc' = Set(pc, r, "done")
          /\ escaped' = Set(escaped, r, TRUE)
    /\ UNCHANGED <<req, hb, pageVar, browser, browsers, resp, startup, shutdown>>
    /\ ConfigSame /\ ProbeIdle /\ Quiet

\* page.close() settles (a throw is caught and logged); browser.close() starts
VercelPageClosed(r) ==
    /\ handler = "vercel" /\ pc[r] = "closing"
    /\ \/ /\ pages' = Set(pages, r, "closed")
          /\ fx' = [fx EXCEPT ![r].closeB = TRUE]
       \/ /\ pages' = pages
          /\ fx' = [fx EXCEPT ![r].closePThrew = TRUE, ![r].closeB = TRUE]
    /\ pc' = Set(pc, r, "closingBrowser")
    /\ UNCHANGED <<req, hb, pageVar, browser, browsers, resp, escaped, startup, shutdown>>
    /\ ConfigSame /\ ProbeIdle /\ Quiet

\* mutant: a throw of browser.close() reaches a handler that answers 500
VercelBrowserClosed_Answers(r) ==
    /\ handler = "vercel" /\ pc[r] = "closingBrowser"
    /\ \/ /\ browsers' = Set(browsers, r, "closed")
          /\ pages' = Set(pages, r, IF pages[r] = "open" THEN "closed" ELSE pages[r])
          /\ UNCHANGED <<fx, resp>>
       \/ /\ UNCHANGED <<browsers, pages>>
          /\ fx' = Mark(r, "closeBThrew")
          /\ resp' = Set(resp, r, Append(resp[r], Reply(500, {"error"})))
    /\ pc' = Set(pc, r, "done")
    /\ UNCHANGED <<req, hb, pageVar, browser, escaped, startup, shutdown>>
    /\ ConfigSame /\ ProbeIdle /\ Quiet

\* browser.close() settles (a throw is caught and logged); closing the
\* browser closes its page
VercelBrowserClosed(r) ==
    /\ handler = "vercel" /\ pc[r] = "closingBrowser"
    /\ \/ /\ browsers' = Set(browsers, r, "closed")
          /\ pages' = Set(pages, r, IF pages[r] = "open" THEN "closed" ELSE pages[r])
          /\ fx' = fx
       \/ /\ UNCHANGED <<browsers, pages>>
          /\ fx' = Mark(r, "closeBThrew")
    /\ pc' = Set(pc, r, "done")
    /\ UNCHANGED <<req, hb, pageVar, browser, resp, escaped, startup, shutdown>>
    /\ ConfigSame /\ ProbeIdle /\ Quiet

VercelNext ==
    \E r \in Reqs :
      \/ VercelEntry(r)
      \/ VercelThrottled(r)
      \/ VercelLaunched(r)
      \/ VercelNewPage(r)
      \/ VercelSetup(r)
      \/ VercelGoto(r)
      \/ VercelWaited(r)
      \/ VercelContent(r)
      \/ VercelPageClosed(r)
      \/ VercelBrowserClosed(r)

\* -------------------------------- src/unnamed/part_000: /proxy handler
\* the ReferenceError the catch block throws on its first statement
TargetUrlNotDefined == Thrown("targetUrl is not defined", "", 0)

\* a rejected promise of an async route handler: Express 4 leaves the request
\* unanswered, Express 5 passes the error to the error-handling middleware,
\* which answers 500 with { error, details }
ExpressRejected(r) ==
    /\ escaped' = Set(escaped, r, TRUE)
    /\ \/ resp' = resp
       \/ resp' = Set(resp, r, Append(resp[r],
              Body(500, {"error"} \cup DetailsField, 0, "", Details(TargetUrlNotDefined.message))))
    /\ pc' = Set(pc, r, "done")

\* the catch block: its first statement reads `targetUrl`, a const declared
\* inside the try block and so not in scope here; the ReferenceError rejects
\* the handler's promise before anything is sent
ProxyCatch(r, e) == Catches(r, e) /\ ExpressRejected(r)

\* mutant: the throttle delay is taken before the url is checked
ProxyEntryStages_ThrottleFirst(url, throttled) ==
    IF url = "" \/ ~ParseURL(url).ok THEN <<"throttle", "validate", "emit">>
    ELSE IF isPrivateIP(ParseURL(url).hostname) THEN <<"throttle", "validate", "ssrf", "emit">>
    ELSE IF throttled THEN <<"throttle", "validate", "ssrf", "headers">>
    ELSE <<"validate", "ssrf", "headers", "fetch">>

\* the stages the handler starts on arrival: requestHeaders is built before
\* the throttle timer is set
ProxyEntryStages(url, throttled) ==
    IF url = "" \/ ~ParseURL(url).ok THEN <<"validate", "emit">>
    ELSE IF isPrivateIP(ParseURL(url).hostname) THEN <<"validate", "ssrf", "emit">>
    ELSE IF throttled THEN <<"validate", "ssrf", "headers", "throttle">>
    ELSE <<"validate", "ssrf", "headers", "fetch">>

\* axios.get sends requests for http: and https: urls only
Fetchable(url) == ParseURL(url).protocol \in {"http:", "https:"}

\* what axios.get rejects with for any other protocol: the AxiosError of its
\* http adapter, or in older releases the TypeError of http.request
ProtocolErrors(protocol) ==
    {Thrown("Unsupported protocol " \o protocol, "ERR_BAD_REQUEST", 0),
     Thrown("Protocol \"" \o protocol \o "\" not supported. Expected \"http:\"",
            "ERR_INVALID_PROTOCOL", 0)}

\* maxRedirects of the axios.get call of the running handler
maxRedirects == IF handler = "legacy" THEN 5 ELSE 10

\* what axios.get settles with for what the target serves: follow-redirects
\* gives up on the redirect after the maxRedirects-th
Settled(up) == IF up.hops > maxRedirects THEN TooManyRedirects ELSE up

\* response.data of a body that is not JSON text: the bytes decoded as UTF-8
\* (axios: responseType 'json', responseEncoding 'utf8'), a byte that starts
\* no valid sequence becoming U+FFFD.  Sequences of one and two bytes are
\* decoded; the inputs hold no lead byte of a longer one.
RECURSIVE Utf8Decode(_, _)
Utf8Decode(b, i) ==
    IF i > Len(b) THEN <<>>
    ELSE IF b[i] < 128 THEN <<b[i]>> \o Utf8Decode(b, i + 1)
    ELSE IF b[i] \in 194 .. 223 /\ i < Len(b) /\ b[i + 1] \in 128 .. 191
    THEN <<(b[i] - 192) * 64 + (b[i + 1] - 128)>> \o Utf8Decode(b, i + 2)
    ELSE <<65533>> \o Utf8Decode(b, i + 1)

\* the bytes of one code point of the basic multilingual plane
Utf8Bytes(c) ==
    IF c < 128 THEN <<c>>
    ELSE IF c < 2048 THEN <<192 + (c \div 64), 128 + (c % 64)>>
    ELSE <<224 + (c \div 4096), 128 + ((c \div 64) % 64), 128 + (c % 64)>>

\* res.send(string): Buffer.from(string, 'utf8')
RECURSIVE Utf8Encode(_, _)
Utf8Encode(cp, i) ==
    IF i > Len(cp) THEN <<>> ELSE Utf8Bytes(cp[i]) \o Utf8Encode(cp, i + 1)

\* res.send(string) sets the charset parameter of the Content-Type to utf-8
\* (the inputs name no other charset)
SetCharset(type) == IF Includes(type, "charset=") THEN type ELSE type \o "; charset=utf-8"

\* the non-HTML branch: res.set({'Content-Type': contentType, ...}) and
\* res.send(response.data)
PassReply(up) ==
    [WithCors(Body(200, {"passthrough"}, 0, "", "")) EXCEPT
         !.ctype = SetCharset(up.ctype),
         !.bytes = Utf8Encode(Utf8Decode(up.bytes, 1), 1)]

\* the http-equiv values of the three selectors
BlockedMetas == {"X-Frame-Options", "Content-Security-Policy", "X-Content-Type-Options"}

\* $('meta[http-equiv="..."]').remove() for the three values; ignoreCase:
\* the selector engine of the installed cheerio compares the value of
\* http-equiv without regard to case
RemoveMetas(doc, ignoreCase) ==
    [doc EXCEPT !.metas =
        {m \in doc.metas :
            IF ignoreCase THEN ToLower(m) \notin {ToLower(b) : b \in BlockedMetas}
            ELSE m \notin BlockedMetas}]

\* $('head').prepend(`<base href="${parsedUrl.origin}/">`)
PrependBase(doc, page) == [doc EXCEPT !.base = OriginOf(page) \o "/"]

\* `${protocol}://${host}/proxy?url=` of the request: trust proxy is set and
\* the deployment is reached over https under this host
proxyBase == "https://outletbackend.onrender.com/proxy?url="

\* the try / catch around one attribute: a url that does not resolve is
\* logged and the value kept
RewriteValue(value, resolved) ==
    IF resolved.ok THEN proxyBase \o encodeURIComponent(resolved.href) ELSE value

\* the .each callback of one selector: img, script and link skip values
\* that start with "data:", every selector skips an empty value
RewriteAttr(attr, baseUrl) ==
    IF attr.value = "" THEN attr
    ELSE IF attr.kind \in {"img", "script", "link"} /\ StartsWith(attr.value, "data:") THEN attr
    ELSE [attr EXCEPT !.value = RewriteValue(attr.value, Resolve(attr.value, baseUrl))]

rewriteUrls(doc, baseUrl) ==
    [doc EXCEPT !.attrs = [i \in DOMAIN doc.attrs |-> RewriteAttr(doc.attrs[i], baseUrl)]]

\* the HTML branch: cheerio.load, the three removals, the base element,
\* rewriteUrls, $.html()
ProcessHtml(doc, page, ignoreCase) ==
    rewriteUrls(PrependBase(RemoveMetas(doc, ignoreCase), page), page)

\* the hosts axios.get sent a request to: the target's, then those its
\* redirects named (follow-redirects requests each Location in turn)
Contacted(url, up) == {ParseURL(url).hostname} \cup up.via

\* axios.get starts
ProxyFetch(r, f) ==
    /\ pc' = Set(pc, r, "fetch")
    /\ fx' = [f EXCEPT ![r].outbound = TRUE]

\* request arrives: validation, SSRF guard, requestHeaders, throttle timer
ProxyEntry(r) ==
    /\ handler = "proxy" /\ Running /\ pc[r] = "idle" /\ r \in env.reqs
    /\ \E url \in env.urls :
         /\ req' = Set(req, r, [method |-> "GET", url |-> url])
         /\ Stage(r, ProxyEntryStages(url, THROTTLE_ENABLED))
         /\ IF ValidationStatus(url) # 0
            THEN /\ resp' = Set(resp, r, <<Reply(ValidationStatus(url), {"error"})>>)
                 /\ pc' = Set(pc, r, "done")
                 /\ fx' = fx
            ELSE IF THROTTLE_ENABLED
            THEN /\ pc' = Set(pc, r, "throttle")
                 /\ \E random \in env.randoms : Throttle(r, random)
                 /\ resp' = resp
            ELSE ProxyFetch(r, fx) /\ resp' = resp
    /\ UNCHANGED <<hb, pageVar, pages, browser, browsers, escaped, startup, shutdown, caught>>
    /\ ConfigSame /\ ProbeIdle

\* the throttle timer fires
ProxyThrottled(r) ==
    /\ handler = "proxy" /\ Running /\ pc[r] = "throttle"
    /\ ProxyFetch(r, fx)
    /\ Stage(r, <<"fetch">>)
    /\ UNCHANGED <<req, hb, pageVar, pages, browser, browsers, resp, escaped,
                   startup, shutdown, caught>>
    /\ ConfigSame /\ ProbeIdle

\* the handler resumes with what axios.get settled with: validateStatus
\* accepts 200..399; a non-HTML body is sent by res.send, an HTML body goes
\* through cheerio and rewriteUrls
ProxySettled(r, up, ignoreCase) ==
    IF up.status >= 200 /\ up.status < 400
    THEN /\ resp' = Set(resp, r, Append(resp[r],
               IF ~Includes(up.ctype, "text/html") THEN PassReply(up)
               ELSE HtmlReply(ProcessHtml(up.doc, PageHref(req[r].url), ignoreCase))))
         /\ Stage(r, IF ~Includes(up.ctype, "text/html") THEN <<"emit">>
                      ELSE <<"rewrite", "emit">>)
         /\ pc' = Set(pc, r, "done")
         /\ UNCHANGED <<escaped, caught>>
    ELSE ProxyCatch(r, AxiosError(up)) /\ stages' = stages

\* axios.get settles
ProxyFetched(r) ==
    /\ handler = "proxy" /\ Running /\ pc[r] = "fetch"
    /\ IF Fetchable(req[r].url)
       THEN \E served \in env.fetches, ignoreCase \in BOOLEAN :
                /\ fx' = [fx EXCEPT ![r].fetched = served,
                                    ![r].hosts = Contacted(req[r].url, served)]
                /\ ProxySettled(r, Settled(served), ignoreCase)
       ELSE \E e \in ProtocolErrors(ParseURL(req[r].url).protocol) :
                ProxyCatch(r, e) /\ UNCHANGED <<stages, fx>>
    /\ UNCHANGED <<req, hb, pageVar, pages, browser, browsers, startup, shutdown>>
    /\ ConfigSame /\ ProbeIdle

\* SIGTERM / SIGINT: process.exit(0)
ExpressSignal ==
    /\ handler \in {"proxy", "legacy"} /\ shutdown = "none"
    /\ shutdown' = "exited"
    /\ UNCHANGED <<req, pc, hb, pageVar, pages, browser, browsers, resp, escaped, fx, startup>>
    /\ ConfigSame /\ ProbeIdle /\ Quiet

ProxyNext ==
    \E r \in Reqs :
      \/ ProxyEntry(r)
      \/ ProxyThrottled(r)
      \/ ProxyFetched(r)

\* ------------------------- src/outlet_backend/server.js: /proxy handler
\* the catch block on error.code and error.response
LegacyClassify(e) ==
    IF e.code = "ENOTFOUND" THEN 404
    ELSE IF e.code = "ECONNREFUSED" THEN 503
    ELSE IF e.code = "ETIMEDOUT" THEN 504
    ELSE IF e.status # 0 THEN e.status
    ELSE 500

\* the ReferenceError rewriteUrls throws on its first line: it reads `req`,
\* which is neither a parameter nor a global
ReqNotDefined == Thrown("req is not defined", "", 0)

\* res.status(statusCode).json({ error, details })
LegacyErrorReply(statusCode, message) ==
    Body(statusCode, {"error"} \cup DetailsField, 0, "", Details(message))

\* the stages the handler starts on arrival: the headers are built in the
\* call of axios.get
LegacyEntryStages(url) ==
    IF url = "" \/ ~ParseURL(url).ok THEN <<"validate", "emit">>
    ELSE IF isPrivateIP(ParseURL(url).hostname) THEN <<"validate", "ssrf", "emit">>
    ELSE <<"validate", "ssrf", "headers", "fetch">>

\* the catch block answers for the error e
LegacyCatch(r, e) ==
    /\ resp' = Set(resp, r, Append(resp[r], LegacyErrorReply(LegacyClassify(e), e.message)))
    /\ Catches(r, e)

\* request arrives: validation, SSRF guard, then axios.get starts
LegacyEntry(r) ==
    /\ handler = "legacy" /\ Running /\ pc[r] = "idle" /\ r \in env.reqs
    /\ \E url \in env.urls :
         /\ req' = Set(req, r, [method |-> "GET", url |-> url])
         /\ Stage(r, LegacyEntryStages(url))
         /\ IF ValidationStatus(url) # 0
            THEN /\ resp' = Set(resp, r, <<Reply(ValidationStatus(url), {"error"})>>)
                 /\ pc' = Set(pc, r, "done")
                 /\ fx' = fx
            ELSE /\ pc' = Set(pc, r, "fetch")
                 /\ fx' = Mark(r, "outbound")
                 /\ resp' = resp
    /\ UNCHANGED <<hb, pageVar, pages, browser, browsers, escaped, startup, shutdown, caught>>
    /\ ConfigSame /\ ProbeIdle

\* the handler resumes with what axios.get settled with: a non-HTML body is
\* sent by res.send; for an HTML body rewriteUrls throws and the catch block
\* answers; so it does for an error
LegacySettled(r, up) ==
    IF up.status >= 200 /\ up.status < 400
    THEN IF ~Includes(up.ctype, "text/html")
         THEN /\ resp' = Set(resp, r, Append(resp[r], PassReply(up)))
              /\ Stage(r, <<"emit">>)
              /\ caught' = caught
         ELSE /\ LegacyCatch(r, ReqNotDefined)
              /\ Stage(r, <<"rewrite", "emit">>)
    ELSE /\ LegacyCatch(r, AxiosError(up))
         /\ Stage(r, <<"emit">>)

\* axios.get settles
LegacyFetched(r) ==
    /\ handler = "legacy" /\ Running /\ pc[r] = "fetch"
    /\ IF Fetchable(req[r].url)
       THEN \E served \in env.fetches :
                /\ fx' = [fx EXCEPT ![r].fetched = served,
                                    ![r].hosts = Contacted(req[r].url, served)]
                /\ LegacySettled(r, Settled(served))
       ELSE \E e \in ProtocolErrors(ParseURL(req[r].url).protocol) :
                LegacyCatch(r, e) /\ Stage(r, <<"emit">>) /\ fx' = fx
    /\ pc' = Set(pc, r, "done")
    /\ UNCHANGED <<req, hb, pageVar, pages, browser, browsers, escaped, startup, shutdown>>
    /\ ConfigSame /\ ProbeIdle

LegacyNext ==
    \E r \in Reqs :
      \/ LegacyEntry(r)
      \/ LegacyFetched(r)

\* ------------------------------------------------- outbound header sets
\* a header object: a function from its keys to their values
NoHeaders == [n \in {} |-> ""]

Put(h, key, value) == [n \in DOMAIN h \cup {key} |-> IF n = key THEN value ELSE h[n]]

Only(key, value) == [n \in {key} |-> value]

\* req.headers[name] is truthy: the header arrived with a non-empty value
\* (node stores inbound header names in lower case)
Truthy(inbound, name) == name \in DOMAIN inbound /\ inbound[name] # ""

ChromeUA ==
    "Mozilla/5.0 (Windows NT 10.0; Win64; x64) AppleWebKit/537.36 (KHTML, like Gecko) Chrome/120.0.0.0 Safari/537.36"

AcceptAll ==
    "text/html,application/xhtml+xml,application/xml;q=0.9,image/avif,image/webp,image/apng,*/*;q=0.8,application/signed-exchange;v=b3;q=0.7"

\* the object literal of the first page.setExtraHTTPHeaders call
ExtraTemplate ==
    [n \in {"Accept", "Accept-Language", "Accept-Encoding", "DNT", "Connection",
            "Upgrade-Insecure-Requests", "Sec-Fetch-Dest", "Sec-Fetch-Mode",
            "Sec-Fetch-Site", "Sec-Fetch-User", "Cache-Control"} |->
        CASE n = "Accept" -> AcceptAll
          [] n = "Accept-Language" -> "en-US,en;q=0.9"
          [] n = "Accept-Encoding" -> "gzip, deflate, br"
          [] n = "DNT" -> "1"
          [] n = "Connection" -> "keep-alive"
          [] n = "Upgrade-Insecure-Requests" -> "1"
          [] n = "Sec-Fetch-Dest" -> "document"
          [] n = "Sec-Fetch-Mode" -> "navigate"
          [] n = "Sec-Fetch-Site" -> "none"
          [] n = "Sec-Fetch-User" -> "?1"
          [] OTHER -> "max-age=0"]

\* puppeteer, page.setExtraHTTPHeaders(headers): the page's extra-header set
\* becomes the argument, its keys in lower case; what an earlier call set is
\* dropped
LowerKeys(h) ==
    [n \in {ToLower(k) : k \in DOMAIN h} |-> h[CHOOSE k \in DOMAIN h : ToLower(k) = n]]

setExtraHTTPHeaders(current, headers) == LowerKeys(headers)

\* if (req.headers[name]) { await page.setExtraHTTPHeaders({ Key: req.headers[name] }) }
Overlay(current, inbound, key, name) ==
    IF Truthy(inbound, name) THEN setExtraHTTPHeaders(current, Only(key, inbound[name]))
    ELSE current

\* the extra-header set in force on the page when page.goto starts
ExtraHeaders(inbound) ==
    Overlay(Overlay(Overlay(setExtraHTTPHeaders(NoHeaders, ExtraTemplate),
                            inbound, "Cookie", "cookie"),
                    inbound, "Authorization", "authorization"),
            inbound, "Referer", "referer")

\* src/unnamed/part_000: the object literal requestHeaders starts as
RequestTemplate ==
    [n \in DOMAIN ExtraTemplate \cup {"User-Agent", "Sec-Ch-Ua", "Sec-Ch-Ua-Mobile",
                                      "Sec-Ch-Ua-Platform"} |->
        CASE n = "User-Agent" -> ChromeUA
          [] n = "Sec-Ch-Ua" ->
               "\"Not_A Brand\";v=\"8\", \"Chromium\";v=\"120\", \"Google Chrome\";v=\"120\""
          [] n = "Sec-Ch-Ua-Mobile" -> "?0"
          [] n = "Sec-Ch-Ua-Platform" -> "\"Windows\""
          [] OTHER -> ExtraTemplate[n]]

\* mutant: the forwarded value is stored under the name it arrived with
Forward_InboundKey(h, inbound, key, name) ==
    IF Truthy(inbound, name) THEN Put(h, name, inbound[name]) ELSE h

\* if (req.headers[name]) { requestHeaders[Key] = req.headers[name] }
Forward(h, inbound, key, name) ==
    IF Truthy(inbound, name) THEN Put(h, key, inbound[name]) ELSE h

\* requestHeaders as handed to axios.get
requestHeaders(inbound) ==
    Forward(Forward(Forward(Forward(Forward(Forward(RequestTemplate,
        inbound, "User-Agent", "user-agent"),
        inbound, "Accept", "accept"),
        inbound, "Accept-Language", "accept-language"),
        inbound, "Cookie", "cookie"),
        inbound, "Referer", "referer"),
        inbound, "Authorization", "authorization")

\* the headers a client may send: the six the handlers look at and one they
\* do not
InboundNames == {"user-agent", "accept", "accept-language", "cookie", "referer",
                 "authorization", "x-api-key"}

ClientValue(name) ==
    CASE name = "user-agent" -> "curl/8.4.0"
      [] name = "accept" -> "*/*"
      [] name = "accept-language" -> "de-DE"
      [] name = "cookie" -> "sid=abc123"
      [] name = "referer" -> "https://news.example.org/"
      [] name = "authorization" -> "Bearer t0k3n"
      [] OTHER -> "secret-key"

\* any subset of them, the cookie header possibly with an empty value
Inbounds ==
    {[n \in S |-> IF n = "cookie" /\ empty THEN "" ELSE ClientValue(n)] :
        S \in SUBSET InboundNames, empty \in BOOLEAN}

\* ------------------------------------------------------- specifications
\* the handlers serving requests
Next == LearnNext \/ VercelNext \/ ProxyNext \/ LegacyNext

\* the handlers serving requests while SIGTERM / SIGINT may arrive and the
\* shared browser may go away
NextOne == Next \/ LearnSignal \/ LearnShutdownClosed \/ LearnBrowserGone \/ ExpressSignal

\* concurrent clients
Spec == Init /\ [][Next]_vars

\* one client sending any input, with signals
SpecOne == InitOne /\ [][NextOne]_vars

\* the persistent /learn process serving concurrent clients that visit one
\* site
InitShared == Deployed /\ handler = "learn" /\ env = SharedClients /\ NODE_ENV = "production"

NextShared == LearnNext

SpecShared == InitShared /\ [][NextShared]_vars

\* --------------------------------------------- the SSRF guard on its own
\* hostnames handed to isPrivateIP: dotted IPv4 addresses, DNS names,
\* IPv6 addresses (as text)
Octets1 == {8, 10, 11, 100, 127, 169, 172, 192, 203}

Octets2 == {0, 15, 16, 20, 31, 32, 168, 254}

Octets3 == {0, 255}

HostNames == {"localhost", "LOCALHOST", "LocalHost", "example.com", "www.example.org",
              "10.example.com", "127.example.org", "192.168.example.net",
              "localhost.example.com"}

HostV6 == {"::1", "fc00::1", "fc00:1::2", "fe80::1", "fe80::abcd", "FC00::1", "FE80::1",
           "2001:4860:4860::8888", "2606:4700::1111"}

Hosts ==
    {[kind |-> "ipv4", text |-> SerializeIpv4(<<a, b, c, 1>>), o |-> <<a, b, c, 1>>] :
        a \in Octets1, b \in Octets2, c \in Octets3}
    \cup {[kind |-> "name", text |-> n, o |-> <<>>] : n \in HostNames}
    \cup {[kind |-> "ipv6", text |-> n, o |-> <<>>] : n \in HostV6}

InitGuard ==
    /\ handler = "none"
    /\ THROTTLE_ENABLED = FALSE
    /\ req = [r \in Reqs |-> NoReq]
    /\ pc = [r \in Reqs |-> "idle"]
    /\ hb = [r \in Reqs |-> NoB]
    /\ pageVar = [r \in Reqs |-> FALSE]
    /\ pages = [r \in Reqs |-> "none"]
    /\ browser = NoB
    /\ browsers = [b \in Launchers |-> "none"]
    /\ resp = [r \in Reqs |-> <<>>]
    /\ escaped = [r \in Reqs |-> FALSE]
    /\ fx = [r \in Reqs |-> NoFx]
    /\ startup = "idle"
    /\ shutdown = "none"
    /\ env = NoClients
    /\ probe = NoProbe
    /\ verdict = FALSE
    /\ NODE_ENV = ""
    /\ stages = [r \in Reqs |-> <<>>]
    /\ caught = [r \in Reqs |-> NoError]

\* isPrivateIP(hostname) is called on a hostname
GuardCall ==
    /\ handler = "none"
    /\ \E h \in Hosts :
         /\ probe' = h
         /\ verdict' = isPrivateIP(h.text)
    /\ UNCHANGED <<handler, THROTTLE_ENABLED, req, pc, hb, pageVar, pages, browser, browsers,
                   resp, escaped, fx, startup, shutdown, env, NODE_ENV, stages, caught>>

NextGuard == GuardCall

SpecGuard == InitGuard /\ [][NextGuard]_vars

\* ------------------------------------- the header builders on their own
InitHeaders ==
    /\ handler \in {"learn", "vercel", "proxy"}
    /\ THROTTLE_ENABLED = FALSE
    /\ req = [r \in Reqs |-> NoReq]
    /\ pc = [r \in Reqs |-> "idle"]
    /\ hb = [r \in Reqs |-> NoB]
    /\ pageVar = [r \in Reqs |-> FALSE]
    /\ pages = [r \in Reqs |-> "none"]
    /\ browser = NoB
    /\ browsers = [b \in Launchers |-> "none"]
    /\ resp = [r \in Reqs |-> <<>>]
    /\ escaped = [r \in Reqs |-> FALSE]
    /\ fx = [r \in Reqs |-> NoFx]
    /\ startup = "idle"
    /\ shutdown = "none"
    /\ env = NoClients
    /\ probe = NoProbe
    /\ verdict = FALSE
    /\ NODE_ENV = ""
    /\ stages = [r \in Reqs |-> <<>>]
    /\ caught = [r \in Reqs |-> NoError]

HeadersSame ==
    UNCHANGED <<handler, THROTTLE_ENABLED, req, pc, hb, pageVar, pages, browser, browsers,
                resp, escaped, fx, startup, shutdown, env, NODE_ENV, stages, caught>>

\* src/server.js: the setExtraHTTPHeaders calls of one request
LearnHeaders ==
    /\ handler = "learn"
    /\ \E inbound \in Inbounds :
         /\ probe' = [kind |-> "headers", headers |-> inbound]
         /\ verdict' = ExtraHeaders(inbound)
    /\ HeadersSame

\* src/api/index.js: the setExtraHTTPHeaders calls of one invocation
VercelHeaders ==
    /\ handler = "vercel"
    /\ \E inbound \in Inbounds :
         /\ probe' = [kind |-> "headers", headers |-> inbound]
         /\ verdict' = ExtraHeaders(inbound)
    /\ HeadersSame

\* src/unnamed/part_000: requestHeaders of one request
ProxyHeaders ==
    /\ handler = "proxy"
    /\ \E inbound \in Inbounds :
         /\ probe' = [kind |-> "headers", headers |-> inbound]
         /\ verdict' = requestHeaders(inbound)
    /\ HeadersSame

NextHeaders == LearnHeaders \/ VercelHeaders \/ ProxyHeaders

SpecHeaders == InitHeaders /\ [][NextHeaders]_vars

\* ------------------------------------------------------------------ claims
\* what the claims call the listed private forms and a public hostname,
\* read off the structure of the input and not off the patterns
InRange172(o) == o[1] = 172 /\ o[2] >= 16 /\ o[2] <= 31

ListedForm(h) ==
    \/ h.kind = "name" /\ h.text = "localhost"
    \/ h.kind = "ipv4" /\ (h.o[1] = 127 \/ h.o[1] = 10 \/ InRange172(h.o)
                            \/ (h.o[1] = 192 /\ h.o[2] = 168))
    \/ h.kind = "ipv6" /\ (h.text = "::1" \/ StartsWith(h.text, "fc00:")
                            \/ StartsWith(h.text, "fe80:"))

PublicHost(h) ==
    \/ h.kind = "name" /\ ToLower(h.text) # "localhost"
    \/ h.kind = "ipv4" /\ h.o[1] \notin {0, 10, 127} /\ ~InRange172(h.o)
                       /\ ~(h.o[1] = 192 /\ h.o[2] = 168) /\ ~(h.o[1] = 169 /\ h.o[2] = 254)
                       /\ ~(h.o[1] = 100 /\ h.o[2] >= 64 /\ h.o[2] <= 127)
    \/ h.kind = "ipv6" /\ StartsWith(h.text, "2")

Probed == probe.kind # "none"

\* C8: isPrivateIP returns true for every hostname of the listed forms
\* (localhost, 127.0.0.1, 10.x.x.x, 172.16-31.x.x, 192.168.x.x, ::1, fc00:*,
\* fe80:*) and false for every public hostname.
C8_Claim ==
    Probed => /\ (ListedForm(probe) => verdict = TRUE)
              /\ (PublicHost(probe) => verdict = FALSE)

\* C9: the guard blocks every IPv4 link-local hostname 169.254.x.x and
\* matches every listed pattern whatever the letter case of the hostname.
C9_Claim ==
    Probed => /\ (probe.kind = "ipv4" /\ probe.o[1] = 169 /\ probe.o[2] = 254 => verdict = TRUE)
              /\ (ListedForm([probe EXCEPT !.text = ToLower(probe.text)]) => verdict = TRUE)

\* the serving of request r has begun
Arrived(r) == pc[r] # "idle"

Finished(r) == pc[r] = "done"

\* r is a GET whose url parses (the handlers parse the url of no other request)
ParsedBy(r) == Arrived(r) /\ req[r].method = "GET" /\ req[r].url # "" /\ ParseURL(req[r].url).ok

\* r has been answered exactly once, with this status
AnsweredWith(r, status) == Len(resp[r]) = 1 /\ resp[r][1].status = status

\* C1: in every handler a request whose parsed hostname the SSRF guard matches
\* is answered 403, and for it no throttle delay, browser launch, page
\* creation, outbound request or navigation is ever started.
C1_SsrfShortCircuit ==
    \A r \in Reqs :
        ParsedBy(r) /\ isPrivateIP(ParseURL(req[r].url).hostname)
            => /\ AnsweredWith(r, 403)
               /\ fx[r] = NoFx
               /\ hb[r] = NoB /\ pages[r] = "none" /\ browsers[r] = "none"

C1_Witness ==
    \E r \in Reqs : /\ req[r].url = "http://localhost:8080/admin"
                    /\ handler = "learn"
                    /\ AnsweredWith(r, 403)
                    /\ Finished(r)

\* C2: every handler invocation sends exactly one response whatever stage
\* fails; a failure of the fetch stage is answered inside the handler and
\* never escapes it as a rejected promise.
C2_Claim ==
    \A r \in Reqs : Finished(r) => Len(resp[r]) = 1 /\ ~escaped[r]

\* C3: in /learn, for every request that obtained a page handle from
\* newPage(), page.close() has been called by the time the handler finishes,
\* on success and on every failure after page creation.
C3_PageCloseAttempted ==
    handler = "learn" => \A r \in Reqs : Finished(r) /\ pageVar[r] => fx[r].closeP

C3_Witness ==
    \E r \in Reqs : /\ handler = "learn" /\ Finished(r) /\ pageVar[r]
                    /\ AnsweredWith(r, 504)
                    /\ fx[r].closeP

\* C4: in the serverless handler, once puppeteer.launch has returned a handle,
\* browser.close() has been called by the time the invocation ends, also when
\* page.close() threw; a throw of either close is not propagated (the
\* invocation still ends normally with its one response).
C4_BrowserCloseAttempted ==
    handler = "vercel" =>
        \A r \in Reqs : Finished(r) /\ hb[r] # NoB
            => fx[r].closeB /\ ~escaped[r] /\ Len(resp[r]) = 1

C4_Witness ==
    \E r \in Reqs : /\ handler = "vercel" /\ Finished(r) /\ hb[r] # NoB
                    /\ fx[r].closePThrew /\ fx[r].closeB /\ fx[r].closeBThrew

OpenPages == {r \in Reqs : pages[r] = "open"}

OpenBrowsers == {b \in Launchers : browsers[b] = "open"}

Unanswered == {r \in Reqs : Arrived(r) /\ Len(resp[r]) = 0}

Unfinished == {r \in Reqs : Arrived(r) /\ ~Finished(r)}

AllFinished == \A r \in Reqs : Finished(r)

C6_Claim ==
    handler = "learn" =>
        /\ (\A b \in Launchers : browsers[b] # "failed")
              => Cardinality({b \in Launchers : browsers[b] # "none"}) <= 1
        /\ \A r1, r2 \in Reqs : hb[r1] # NoB /\ hb[r2] # NoB => hb[r1] = hb[r2]

\* C7: a request whose url parses with a scheme other than http or https is
\* rejected by validation and is never handed to the fetch strategy.
C7_Claim ==
    \A r \in Reqs :
        ParsedBy(r) /\ ParseURL(req[r].url).protocol \notin {"http:", "https:"}
            => /\ ~fx[r].launch /\ ~fx[r].newPage /\ ~fx[r].outbound
               /\ Finished(r) => resp[r][1].status \in {400, 403}

\* the text between the brackets of an IPv6 literal host, "" when there is none
BracketHost(url) ==
    LET open == IndexFrom(url, "[", 1)
        close == IndexFrom(url, "]", 1)
    IN  IF open = 0 \/ close < open THEN "" ELSE SubSeq(url, open + 1, close - 1)

\* C10: a request whose target has an IPv6 literal host that is loopback
\* (::1), fc00: or fe80: is answered 403 (and nothing is fetched for it).
C10_Claim ==
    \A r \in Reqs :
        ParsedBy(r) /\ (LET h == ToLower(BracketHost(req[r].url))
                      IN  ReLoop6(h) \/ ReFc00(h) \/ ReFe80(h))
            => /\ ~fx[r].outbound
               /\ Finished(r) => AnsweredWith(r, 403)

\* ------------------------------------------------ claims: stages and errors
\* position of a stage in the order the specification gives
ClaimedRank(stage) ==
    CASE stage = "validate" -> 1
      [] stage = "ssrf" -> 2
      [] stage = "throttle" -> 3
      [] stage = "headers" -> 4
      [] stage = "fetch" -> 5
      [] stage = "rewrite" -> 6
      [] stage = "emit" -> 7

\* position of a stage in the order of src/unnamed/part_000
DirectRank(stage) ==
    CASE stage = "headers" -> 3
      [] stage = "throttle" -> 4
      [] OTHER -> ClaimedRank(stage)

Failed(r) == caught[r].thrown

\* the error was thrown once the fetch (axios.get, page.goto) had started
\* and not by the rewrite
FetchFailed(r) ==
    /\ Failed(r)
    /\ \E i \in 1 .. Len(stages[r]) : stages[r][i] = "fetch"
    /\ \A i \in 1 .. Len(stages[r]) : stages[r][i] # "rewrite"

\* C12: when the fetch stage fails the response body is a JSON object with
\* the fields error, url (the requested url) and statusCode (equal to the
\* HTTP status of the response), in every render / proxy handler.
C12_Claim ==
    \A r \in Reqs :
        FetchFailed(r) /\ Finished(r)
            => /\ Len(resp[r]) = 1
               /\ ErrorFields \subseteq resp[r][1].fields
               /\ resp[r][1].url = req[r].url
               /\ resp[r][1].statusCode = resp[r][1].status

\* the status the catch block of the running browser-render handler chooses
RenderClassify(message) ==
    IF handler = "learn" THEN LearnClassify(message) ELSE VercelClassify(message)

CleanupThrew(r) == fx[r].closePThrew \/ fx[r].closeBThrew

\* the answer the catch block of the running browser-render handler builds
RenderErrorReply(statusCode, url, message) ==
    IF handler = "learn" THEN ErrorReply(statusCode, url, message)
    ELSE VercelErrorReply(statusCode, url, message)

\* C13: when a request fails in the fetch stage and the page.close() or
\* browser.close() that follows also fails, the caller receives the status
\* and body chosen for the original failure: the cleanup failure neither
\* changes the response nor produces a second one.
C13_CleanupKeepsResponse ==
    handler \in {"learn", "vercel"} =>
        \A r \in Reqs :
            FetchFailed(r) /\ CleanupThrew(r)
                => /\ Len(resp[r]) = 1
                   /\ resp[r][1] = RenderErrorReply(RenderClassify(caught[r].message),
                                                    req[r].url, caught[r].message)
                   /\ ~escaped[r]

C13_Witness ==
    \E r \in Reqs :
        /\ handler = "vercel" /\ Finished(r) /\ FetchFailed(r)
        /\ caught[r].message = NavTimeoutMsg
        /\ fx[r].closePThrew /\ fx[r].closeBThrew
        /\ AnsweredWith(r, 504)

\* C14: in both browser-render handlers a navigation that exceeds its
\* timeout is answered 504, a name-resolution failure 404, a refused
\* connection 503, an aborted request 403 and a driver protocol error 502.
C14_NavigationErrors ==
    handler \in {"learn", "vercel"} =>
        \A r \in Reqs :
            Failed(r) =>
                /\ caught[r].message = NavTimeoutMsg => AnsweredWith(r, 504)
                /\ caught[r].message = NameNotResolvedMsg => AnsweredWith(r, 404)
                /\ caught[r].message = ConnectionRefusedMsg => AnsweredWith(r, 503)
                /\ caught[r].message = AbortedMsg => AnsweredWith(r, 403)
                /\ caught[r].message = ProtocolErrorMsg => AnsweredWith(r, 502)

C14_Witness ==
    \E r \in Reqs :
        /\ handler = "learn" /\ Finished(r)
        /\ caught[r].message = AbortedMsg
        /\ AnsweredWith(r, 403)

\* the messages the driver gives when the page or the browser was closed
\* before the request completed
HandleClosedMsgs == {TargetClosedMsg, SessionClosedMsg}

\* C15: in both browser-render handlers a failure caused by the page or
\* browser handle being closed before the request completed is answered 408,
\* also when the driver's message for it contains the text 'Protocol error'.
C15_Claim ==
    handler \in {"learn", "vercel"} =>
        \A r \in Reqs :
            Failed(r) /\ caught[r].message \in HandleClosedMsgs => AnsweredWith(r, 408)

\* C16: in the direct-fetch handler a name-resolution failure is answered
\* 404, a refused connection 503, and an upstream response whose status is
\* outside 200-399 is answered with that same status (429 included), with no
\* successful body emitted.
C16_Claim ==
    handler = "proxy" =>
        \A r \in Reqs :
            Failed(r) /\ Finished(r) =>
                /\ caught[r].code = "ENOTFOUND" => AnsweredWith(r, 404)
                /\ caught[r].code = "ECONNREFUSED" => AnsweredWith(r, 503)
                /\ caught[r].status # 0 => AnsweredWith(r, caught[r].status)

\* C17: in the direct-fetch handlers an outbound fetch that exceeds its 30 s
\* timeout is aborted and the request is answered 504; it is never left
\* pending and never answered with another status.
C17_Claim ==
    handler \in {"proxy", "legacy"} =>
        \A r \in Reqs :
            Failed(r) /\ Finished(r) /\ caught[r].code = TimedOut.code => AnsweredWith(r, 504)

\* C18: in the direct-fetch handlers every TLS / certificate failure of the
\* outbound connection (expired or untrusted certificate) is answered 526.
C18_Claim ==
    handler \in {"proxy", "legacy"} =>
        \A r \in Reqs :
            Failed(r) /\ Finished(r) /\ caught[r].code \in {CertExpired.code, SelfSigned.code}
                => AnsweredWith(r, 526)

\* C19: error classification is total and single-valued: every value thrown
\* inside a handler's try block (one without a message or code included)
\* resolves to exactly one HTTP status, and a failure matching no rule
\* resolves to 500.
C19_Claim ==
    \A r \in Reqs :
        Failed(r) /\ Finished(r) =>
            /\ Len(resp[r]) = 1
            /\ resp[r][1].status \in 400 .. 599
            /\ ~escaped[r]
            /\ caught[r].message = EmptyMsg /\ caught[r].code = "" /\ caught[r].status = 0
                  => resp[r][1].status = 500

\* C20 as stated: the details field of an error response carries the
\* underlying error message exactly when the process runs in a
\* non-production configuration; in production no error response exposes it.
C20_Claim ==
    \A r \in Reqs :
        Failed(r) /\ ~escaped[r] /\ Len(resp[r]) = 1 =>
            IF NODE_ENV # "production"
            THEN "details" \in resp[r][1].fields /\ resp[r][1].details = caught[r].message
            ELSE "details" \notin resp[r][1].fields /\ resp[r][1].details = ""

\* C20 amended: the details field of the error response a catch block sends
\* carries the underlying error message exactly when NODE_ENV is
\* 'development'; under any other NODE_ENV (production, unset, anything
\* else) the response of a failed request has no details field and exposes
\* no error message.
C20_DetailsInDevelopmentOnly ==
    \A r \in Reqs :
        /\ Failed(r) /\ ~escaped[r] /\ Len(resp[r]) = 1 =>
              IF NODE_ENV = "development"
              THEN "details" \in resp[r][1].fields /\ resp[r][1].details = caught[r].message
              ELSE "details" \notin resp[r][1].fields /\ resp[r][1].details = ""
        /\ Failed(r) /\ NODE_ENV # "development" =>
              \A i \in 1 .. Len(resp[r]) :
                  "details" \notin resp[r][i].fields /\ resp[r][i].details = ""

C20_Witness ==
    \E r \in Reqs :
        /\ handler = "learn" /\ NODE_ENV = "development" /\ Finished(r)
        /\ caught[r].message = NavTimeoutMsg
        /\ AnsweredWith(r, 504)
        /\ resp[r][1].details = NavTimeoutMsg

\* the throttle timer of r is pending
Throttling(r) == pc[r] = "throttle"

\* C21: when throttling is enabled with minMs = 100 and maxMs = 500 the delay
\* applied before dispatch is an integer d with 100 <= d < 500; when
\* throttling is disabled the delay is 0 and no timer is scheduled.
C21_ThrottleDelay ==
    \A r \in Reqs :
        /\ fx[r].throttle => THROTTLE_ENABLED /\ fx[r].delay \in 100 .. 499
        /\ ~THROTTLE_ENABLED => ~fx[r].throttle /\ fx[r].delay = 0 /\ ~Throttling(r)
        /\ THROTTLE_ENABLED /\ (fx[r].launch \/ fx[r].newPage \/ fx[r].outbound) => fx[r].throttle

C21_Witness ==
    \E r \in Reqs : THROTTLE_ENABLED /\ Throttling(r) /\ fx[r].delay = 499

\* r is a GET the validation or the SSRF guard turns down
Rejected(r) == Arrived(r) /\ req[r].method = "GET" /\ ValidationStatus(req[r].url) # 0

\* C22: in every handler a missing url is answered 400 with the fields error
\* and usage, an unparsable url 400 with the fields error and details, and a
\* hostname the SSRF guard matches 403 with the fields error and hostname,
\* hostname being the parsed hostname.
C22_Claim ==
    \A r \in Reqs :
        Rejected(r) =>
            /\ Len(resp[r]) = 1
            /\ req[r].url = "" =>
                  resp[r][1].status = 400 /\ resp[r][1].fields = {"error", "usage"}
            /\ req[r].url # "" /\ ~ParseURL(req[r].url).ok =>
                  resp[r][1].status = 400 /\ resp[r][1].fields = {"error", "details"}
            /\ ParsedBy(r) =>
                  /\ resp[r][1].status = 403
                  /\ resp[r][1].fields = {"error", "hostname"}
                  /\ resp[r][1].hostname = ParseURL(req[r].url).hostname

\* the stages of the pipeline that come before the answer is sent
PipelineStages == {"validate", "ssrf", "throttle", "headers", "fetch", "rewrite"}

\* C23: a request to the render endpoint (/learn) with a method other than
\* GET is answered 405 with a body that lists allowedMethods, and no stage
\* of the pipeline runs for it.
C23_Claim ==
    handler \in {"learn", "vercel"} =>
        \A r \in Reqs :
            Arrived(r) /\ req[r].method # "GET" =>
                /\ AnsweredWith(r, 405)
                /\ "allowedMethods" \in resp[r][1].fields
                /\ \A i \in 1 .. Len(stages[r]) : stages[r][i] \notin PipelineStages

\* C24: every response a handler sends, on the success path and on every
\* error path, carries the Access-Control-Allow-* headers set by the handler.
C24_Claim ==
    \A r \in Reqs : \A i \in 1 .. Len(resp[r]) : resp[r][i].cors

\* the target of r served this request directly (no redirect) with status 200
ServedOk(r) ==
    /\ handler \in {"proxy", "legacy"} /\ Finished(r)
    /\ fx[r].fetched.status = 200 /\ fx[r].fetched.hops = 0

ServedHtml(r) == ServedOk(r) /\ Includes(fx[r].fetched.ctype, "text/html")

\* the meta elements of doc the handlers are to remove, in any letter case
FramingMetas(doc) ==
    {m \in doc.metas : ToLower(m) \in {ToLower(b) : b \in BlockedMetas}}

\* C25: for a target that answers 200 with content-type text/html each
\* direct-fetch handler answers 200 with a body whose base element has the
\* target's origin followed by "/" as href and that holds no meta http-equiv
\* element for X-Frame-Options, Content-Security-Policy or
\* X-Content-Type-Options, whatever the letter case of the value.
C25_Claim ==
    \A r \in Reqs :
        ServedHtml(r) =>
            /\ AnsweredWith(r, 200)
            /\ resp[r][1].doc.base = OriginOf(PageHref(req[r].url)) \o "/"
            /\ FramingMetas(resp[r][1].doc) = {}

\* the value is a reference that resolves against the page of r
WellFormed(r, value) == Resolve(value, PageHref(req[r].url)).ok

\* the value uses the data: scheme
DataUri(value) == StartsWith(ToLower(value), "data:")

\* the absolute url of the value on the page of r
AbsoluteOf(r, value) == Resolve(value, PageHref(req[r].url)).href

\* the url parameter of a rewritten value
UrlParam(value) == SubSeq(value, Len(proxyBase) + 1, Len(value))

\* attribute i of the answer to r
Emitted(r, i) == resp[r][1].doc.attrs[i].value

\* the answer to r holds attribute i of the page
Emits(r, i) == Len(resp[r]) >= 1 /\ i \in DOMAIN resp[r][1].doc.attrs

\* C26: after rewriteUrls every a[href], form[action], img[src], script[src]
\* and link[href] value that is a well-formed url and not a data: URI equals
\* proxyBase followed by the percent-encoding of its absolute url, and
\* percent-decoding that parameter gives the absolute url back.
C26_Claim ==
    \A r \in Reqs :
        ServedHtml(r) =>
            \A i \in DOMAIN fx[r].fetched.doc.attrs :
                WellFormed(r, fx[r].fetched.doc.attrs[i].value)
                /\ ~DataUri(fx[r].fetched.doc.attrs[i].value) =>
                    /\ Emits(r, i)
                    /\ Emitted(r, i) = proxyBase \o encodeURIComponent(
                                           AbsoluteOf(r, fx[r].fetched.doc.attrs[i].value))
                    /\ decodeURIComponent(UrlParam(Emitted(r, i)))
                           = AbsoluteOf(r, fx[r].fetched.doc.attrs[i].value)

\* C27: rewriteUrls (src/unnamed/part_000) leaves a data: URI unchanged in
\* each of the five attribute kinds.
C27_Claim ==
    \A r \in Reqs :
        ServedHtml(r) /\ handler = "proxy" =>
            \A i \in DOMAIN fx[r].fetched.doc.attrs :
                StartsWith(fx[r].fetched.doc.attrs[i].value, "data:") =>
                    Emits(r, i) /\ Emitted(r, i) = fx[r].fetched.doc.attrs[i].value

\* the page served to r holds a value that does not resolve
HasMalformed(r) ==
    \E i \in DOMAIN fx[r].fetched.doc.attrs : ~WellFormed(r, fx[r].fetched.doc.attrs[i].value)

\* C28: in each direct-fetch handler a value that cannot be parsed as a url
\* even after resolution is left unchanged, the other attributes are
\* rewritten and the request is answered 200.
C28_Claim ==
    \A r \in Reqs :
        ServedHtml(r) /\ HasMalformed(r) =>
            /\ AnsweredWith(r, 200)
            /\ \A i \in DOMAIN fx[r].fetched.doc.attrs :
                   /\ Emits(r, i)
                   /\ Emitted(r, i) =
                          IF WellFormed(r, fx[r].fetched.doc.attrs[i].value)
                          THEN proxyBase \o encodeURIComponent(
                                   AbsoluteOf(r, fx[r].fetched.doc.attrs[i].value))
                          ELSE fx[r].fetched.doc.attrs[i].value

\* C29: for an upstream answer whose content-type is not text/html the
\* emitted body is byte-identical to the upstream body and the emitted
\* Content-Type equals the upstream content-type.
C29_Claim ==
    \A r \in Reqs :
        ServedOk(r) /\ ~Includes(fx[r].fetched.ctype, "text/html") =>
            /\ AnsweredWith(r, 200)
            /\ resp[r][1].bytes = fx[r].fetched.bytes
            /\ resp[r][1].ctype = fx[r].fetched.ctype

\* C30: each direct-fetch handler follows a chain of 10 redirects: a target
\* reached through at most 10 redirects is fetched, axios.get does not give
\* up on it.
C30_Claim ==
    \A r \in Reqs :
        /\ handler \in {"proxy", "legacy"} /\ Finished(r)
        /\ fx[r].fetched.status = 200 /\ fx[r].fetched.hops <= 10
        => caught[r].code # "ERR_FR_TOO_MANY_REDIRECTS"

\* a header set holds a header under any spelling of its name, with a value
Holds(h, name, value) ==
    \E k \in DOMAIN h : ToLower(k) = ToLower(name) /\ h[k] = value

Built(who) == handler \in who /\ probe.kind = "headers"

\* C31: in the browser-render handlers the extra-header set in force when
\* navigation starts holds every header of the synthetic template and each
\* of cookie, authorization, referer the inbound request carries (with a
\* non-empty value), whatever combination of the three is present.
C31_Claim ==
    Built({"learn", "vercel"}) =>
        /\ \A k \in DOMAIN ExtraTemplate : Holds(verdict, k, ExtraTemplate[k])
        /\ \A n \in {"cookie", "authorization", "referer"} :
               Truthy(probe.headers, n) => Holds(verdict, n, probe.headers[n])

Whitelist == {"user-agent", "accept", "accept-language", "cookie", "referer", "authorization"}

Forwarded(name) == name \in Whitelist /\ Truthy(probe.headers, name)

\* C32: in the direct-fetch handler every entry of the outbound header set
\* is a template entry or the value of a whitelisted header present on the
\* inbound request; such a value stands in place of the template's value;
\* no two keys of the set differ only in letter case.
C32_ForwardedHeaders ==
    Built({"proxy"}) =>
        /\ \A k \in DOMAIN verdict :
               \/ /\ k \in DOMAIN RequestTemplate
                  /\ verdict[k] = RequestTemplate[k]
                  /\ ~Forwarded(ToLower(k))
               \/ /\ Forwarded(ToLower(k))
                  /\ verdict[k] = probe.headers[ToLower(k)]
        /\ \A n \in Whitelist :
               Truthy(probe.headers, n) => Holds(verdict, n, probe.headers[n])
        /\ \A k1, k2 \in DOMAIN verdict : ToLower(k1) = ToLower(k2) => k1 = k2

\* a request with a forwarded user-agent and cookie, a header outside the
\* whitelist and no accept header
C32_Witness ==
    /\ Built({"proxy"})
    /\ Truthy(probe.headers, "user-agent") /\ Truthy(probe.headers, "cookie")
    /\ "x-api-key" \in DOMAIN probe.headers
    /\ "accept" \notin DOMAIN probe.headers
    /\ verdict["User-Agent"] = "curl/8.4.0"
    /\ verdict["Cookie"] = "sid=abc123"
    /\ verdict["Accept"] = AcceptAll

\* the handler of r receives its browser handle in this step
Handed(r) == pc[r] # "newPage" /\ pc'[r] = "newPage"

\* C33: in persistent-process mode a request is never handed the handle of a
\* browser that has crashed or disconnected: after the shared browser is
\* gone, a later request gets a live browser and can be served.
C33_Claim ==
    [][\A r \in Reqs : handler = "learn" /\ Handed(r) => browsers'[hb'[r]] = "open"]_vars

\* C34: no operation is invoked on a page handle after the page has closed,
\* also when the shared browser closes while a request is between page
\* creation and content extraction: page.content() is only ever called on
\* an open page.
C34_Claim ==
    \A r \in Reqs : fx[r].contentOn \in {"none", "open"}

\* C35: while a request is processed no outbound HTTP request and no browser
\* navigation goes to a host the SSRF guard matches, the hosts reached by
\* following redirects from an admitted target included.
C35_Claim ==
    \A r \in Reqs : \A h \in fx[r].hosts : ~isPrivateIP(h)

\* C36: in persistent-process mode nothing written while one request is
\* served is readable while a later one is served: a navigation carries no
\* cookie that the target stored in the shared browser during another
\* request.
C36_Claim ==
    \A r \in Reqs : handler = "learn" => fx[r].seen = {}

\* the next step of the handler of r, whichever it is
Serve(r) ==
    \/ LearnEntry(r) \/ LearnThrottled(r) \/ LearnLaunched(r) \/ LearnNewPage(r)
    \/ LearnSetup(r) \/ LearnGoto(r) \/ LearnWaited(r) \/ LearnContent(r)
    \/ LearnPageClosed(r)
    \/ VercelEntry(r) \/ VercelThrottled(r) \/ VercelLaunched(r) \/ VercelNewPage(r)
    \/ VercelSetup(r) \/ VercelGoto(r) \/ VercelWaited(r) \/ VercelContent(r)
    \/ VercelPageClosed(r) \/ VercelBrowserClosed(r)
    \/ ProxyEntry(r) \/ ProxyThrottled(r) \/ ProxyFetched(r)
    \/ LegacyEntry(r) \/ LegacyFetched(r)

\* r is suspended in the throttle delay, the outbound fetch or the
\* navigation and the wait after it
Suspended(r) == pc[r] \in {"throttle", "fetch", "goto", "wait"}

\* C37: while one request is suspended in the throttle delay, the outbound
\* fetch or the navigation wait, every other request that has no response
\* yet can take its next step: no request waits for the suspension of
\* another to end.
C37_NoWaiting ==
    \A q \in env.reqs : \A r \in env.reqs \ {q} :
        Suspended(q) /\ pc[r] # "done" => ENABLED Serve(r)

\* one request still in its throttle delay, fetch or navigation, the other
\* served from its target meanwhile
C37_Witness ==
    \E q \in env.reqs : \E r \in env.reqs \ {q} :
        /\ Suspended(q) /\ fx[q].outbound
        /\ Finished(r) /\ fx[r].outbound /\ AnsweredWith(r, 200)

====
